---- MODULE Spec2Model ----
(***************************************************************************)
(* Record reconciliation pipeline of the music prediction platform:        *)
(* src/data_cleaning_pipeline.py, class MusicDataCleaner.                  *)
(*                                                                         *)
(* Text is a sequence of characters, each a string: an ASCII character is  *)
(* itself and any other is named by its code point ("U+00E9" is e-acute).  *)
(* A table cell is a tuple: NULL (None / NaN) is the empty tuple and a     *)
(* present value v is <<v>>.                                               *)
(* A table (pandas DataFrame) is a sequence of entries [label, row]: label *)
(* is the row's index label, the entry's place in the sequence (from 0) is *)
(* its position, and row is a record from column names to cells.           *)
(***************************************************************************)
EXTENDS Integers, Sequences, FiniteSets, TLC

VARIABLES
    pc,                 \* position in the run
    chart_in,           \* rows of table chart_data, as loaded
    video_in,           \* rows of table youtube_videos, as loaded
    chart_df,           \* clean_chart_data's df
    youtube_df,         \* clean_youtube_data's df
    unified_df,         \* create_unified_dataset's unified_df
    duplicates,         \* duplicates_df of the stage at hand
    k,                  \* number of rows of duplicates already iterated
    indices_to_remove,  \* the merge loop's set of labels
    threshold,          \* similarity_threshold, in hundredths
    raised,             \* the exception that ended the run, "" when none
    args,               \* the arguments of the call at hand
    result              \* what the call returned

vars == <<pc, chart_in, video_in, chart_df, youtube_df, unified_df,
          duplicates, k, indices_to_remove, threshold, raised, args, result>>

----------------------------------------------------------------------------
(* Cells *)

NULL == <<>>

Val(v) == <<v>>

NotNa(cell) == cell # NULL

IsNa(cell) == cell = NULL

----------------------------------------------------------------------------
(* Text *)

UpperChars == <<"A","B","C","D","E","F","G","H","I","J","K","L","M",
                "N","O","P","Q","R","S","T","U","V","W","X","Y","Z">>

LowerChars == <<"a","b","c","d","e","f","g","h","i","j","k","l","m",
                "n","o","p","q","r","s","t","u","v","w","x","y","z">>

\* str.lower() on one character
LowerChar(c) ==
    IF \E i \in 1..Len(UpperChars) : UpperChars[i] = c
    THEN LowerChars[CHOOSE i \in 1..Len(UpperChars) : UpperChars[i] = c]
    ELSE c

\* str.lower()
Lower(s) == [i \in 1..Len(s) |-> LowerChar(s[i])]

\* characters str.split() and the regex class \s treat as whitespace
IsSpace(c) == c \in {" ", "\t", "\n"}

Slice(s, lo, hi) == [i \in 1..(hi - lo) |-> s[lo + i]]   \* Python s[lo:hi]

Max(S) == CHOOSE m \in S : \A n \in S : n <= m

Min(S) == CHOOSE m \in S : \A n \in S : m <= n

----------------------------------------------------------------------------
(* difflib.SequenceMatcher(None, a, b).ratio(), for texts shorter than the *)
(* 200 characters at which the autojunk heuristic starts.  Indices are     *)
(* Python's: from 0, ranges half open.                                     *)

RECURSIVE RunLength(_, _, _, _, _, _)
\* length of the longest common run of a and b starting at a[i], b[j]
RunLength(a, b, i, j, ahi, bhi) ==
    IF i < ahi /\ j < bhi /\ a[i + 1] = b[j + 1]
    THEN 1 + RunLength(a, b, i + 1, j + 1, ahi, bhi)
    ELSE 0

\* find_longest_match: the longest block; of those the one starting
\* earliest in a; of those the one starting earliest in b
FindLongestMatch(a, b, alo, ahi, blo, bhi) ==
    LET size == Max({0} \cup {RunLength(a, b, i, j, ahi, bhi) :
                              i \in alo..(ahi - 1), j \in blo..(bhi - 1)})
    IN  IF size = 0 THEN <<alo, blo, 0>>
        ELSE LET besti == Min({i \in alo..(ahi - 1) :
                                 \E j \in blo..(bhi - 1) :
                                     RunLength(a, b, i, j, ahi, bhi) = size})
                 bestj == Min({j \in blo..(bhi - 1) :
                                 RunLength(a, b, besti, j, ahi, bhi) = size})
             IN  <<besti, bestj, size>>

RECURSIVE MatchedChars(_, _, _, _, _, _)
RECURSIVE MatchedAround(_, _, _, _, _, _, _)
\* get_matching_blocks: the sum of the block sizes
MatchedChars(a, b, alo, ahi, blo, bhi) ==
    MatchedAround(a, b, alo, ahi, blo, bhi,
                  FindLongestMatch(a, b, alo, ahi, blo, bhi))

\* the block m = (i, j, size) and the blocks to its left and to its right
MatchedAround(a, b, alo, ahi, blo, bhi, m) ==
    IF m[3] = 0 THEN 0
    ELSE m[3]
         + (IF alo < m[1] /\ blo < m[2]
            THEN MatchedChars(a, b, alo, m[1], blo, m[2]) ELSE 0)
         + (IF m[1] + m[3] < ahi /\ m[2] + m[3] < bhi
            THEN MatchedChars(a, b, m[1] + m[3], ahi, m[2] + m[3], bhi)
            ELSE 0)

\* ratio() >= threshold / 100: ratio is 2.0 * matches / length, and 1.0
\* when both texts are empty
RatioAtLeast(a, b, thr) ==
    LET length == Len(a) + Len(b)
        matches == MatchedChars(a, b, 0, Len(a), 0, Len(b))
    IN  IF length = 0 THEN 100 >= thr
        ELSE 200 * matches >= thr * length

----------------------------------------------------------------------------
(* Text helpers: str.replace, str.strip, str.split/join *)

StartsWithAt(s, p, at) ==
    /\ at + Len(p) <= Len(s)
    /\ \A i \in 1..Len(p) : s[at + i] = p[i]

\* the first position at or after at where old occurs in s, -1 when none
NextOccurrence(s, old, at) ==
    IF \E p \in at..Len(s) : StartsWithAt(s, old, p)
    THEN Min({p \in at..Len(s) : StartsWithAt(s, old, p)})
    ELSE -1

RECURSIVE ReplaceFrom(_, _, _, _)
RECURSIVE ReplaceAt(_, _, _, _, _)
\* s[at:] with the occurrences of old replaced, from the left
ReplaceFrom(s, old, new, at) ==
    ReplaceAt(s, old, new, at, NextOccurrence(s, old, at))

\* the same when the next occurrence is at p
ReplaceAt(s, old, new, at, p) ==
    IF p < 0 THEN Slice(s, at, Len(s))
    ELSE Slice(s, at, p) \o new \o ReplaceFrom(s, old, new, p + Len(old))

\* s.replace(old, new), old not empty
Replace(s, old, new) ==
    IF s = <<>> THEN <<>> ELSE ReplaceFrom(s, old, new, 0)

\* number of characters of s from position at on that are all in chars
RECURSIVE RunOf(_, _, _)
RunOf(s, at, chars) ==
    IF at < Len(s) /\ s[at + 1] \in chars
    THEN 1 + RunOf(s, at + 1, chars) ELSE 0

RECURSIVE RunBack(_, _, _)
RunBack(s, end, chars) ==
    IF end > 0 /\ s[end] \in chars
    THEN 1 + RunBack(s, end - 1, chars) ELSE 0

SpaceChars == {" ", "\t", "\n"}

WsRun(s, at) == RunOf(s, at, SpaceChars)

\* s.strip(chars)
StripChars(s, chars) ==
    LET lead == RunOf(s, 0, chars)
    IN  IF lead = Len(s) THEN <<>>
        ELSE Slice(s, lead, Len(s) - RunBack(s, Len(s), chars))

\* s.strip()
Strip(s) == StripChars(s, SpaceChars)

\* the first position at or after at of a whitespace character of s, -1
\* when none
NextSpace(s, at) ==
    IF \E p \in at..(Len(s) - 1) : IsSpace(s[p + 1])
    THEN Min({p \in at..(Len(s) - 1) : IsSpace(s[p + 1])})
    ELSE -1

RECURSIVE CollapseFrom(_, _)
RECURSIVE CollapseAt(_, _, _)
\* s[at:] with each run of whitespace made one space
CollapseFrom(s, at) == CollapseAt(s, at, NextSpace(s, at))

\* the same when the next run of whitespace starts at p
CollapseAt(s, at, p) ==
    IF p < 0 THEN Slice(s, at, Len(s))
    ELSE Slice(s, at, p) \o <<" ">> \o CollapseFrom(s, p + WsRun(s, p))

\* re.sub(r"\s+", " ", s)
CollapseWs(s) == IF s = <<>> THEN <<>> ELSE CollapseFrom(s, 0)

\* variant: s.replace("  ", " ").strip()
HalveSpaces(s) == Strip(Replace(s, <<" ", " ">>, <<" ">>))

\* " ".join(s.split())
SplitJoin(s) == Strip(CollapseWs(s))

\* t in s
Contains(s, t) == \E at \in 0..Len(s) : StartsWithAt(s, t, at)

EndsWith(s, t) == Len(t) <= Len(s) /\ StartsWithAt(s, t, Len(s) - Len(t))

----------------------------------------------------------------------------
(* clean_text *)

\* unicodedata.normalize("NFKD", c) for the characters of the model's
\* texts that it changes; every other character of the model's texts is
\* its own decomposition
Decompose(c) ==
    CASE c = "U+00E9" -> <<"e", "U+0301">>
      [] c = "U+00E2" -> <<"a", "U+0302">>
      [] c = "U+2122" -> <<"T", "M">>
      [] OTHER -> <<c>>

\* the first position at or after at of a character of s that is not its
\* own decomposition, -1 when none
NextDecomposed(s, at) ==
    IF \E p \in at..(Len(s) - 1) : Decompose(s[p + 1]) # <<s[p + 1]>>
    THEN Min({p \in at..(Len(s) - 1) : Decompose(s[p + 1]) # <<s[p + 1]>>})
    ELSE -1

RECURSIVE NFKDFrom(_, _)
RECURSIVE NFKDAt(_, _, _)
\* s[at:] with every character decomposed
NFKDFrom(s, at) == NFKDAt(s, at, NextDecomposed(s, at))

\* the same when the next character to decompose is at p
NFKDAt(s, at, p) ==
    IF p < 0 THEN Slice(s, at, Len(s))
    ELSE Slice(s, at, p) \o Decompose(s[p + 1]) \o NFKDFrom(s, p + 1)

NFKD(s) == IF s = <<>> THEN <<>> ELSE NFKDFrom(s, 0)

Artifact1 == <<"U+00E2", "U+20AC", "U+2122">>
Artifact2 == <<"U+00E2", "U+20AC", "U+0153">>
Artifact3 == <<"U+00E2", "U+20AC">>

\* clean_text of a cell: NULL and "" give ""
clean_text(cell) ==
    IF IsNa(cell) \/ cell[1] = <<>> THEN <<>>
    ELSE LET t1 == NFKD(cell[1])
             t2 == SplitJoin(t1)
             t3 == Replace(Replace(Replace(t2, Artifact1, <<"'">>),
                                   Artifact2, <<"\"">>),
                           Artifact3, <<"\"">>)
         IN  Strip(t3)

----------------------------------------------------------------------------
(* Regular expressions of the cleaning rules.  A pattern is a sequence of  *)
(* tokens: WSP is \s+, WSS is \s*, any other token is a literal character  *)
(* (lower case: the rules are applied with re.IGNORECASE).                 *)

WSP == "\\s+"

WSS == "\\s*"

\* the first whitespace token of pat at or after p, Len(pat) + 1 when none
NextWsToken(pat, p) ==
    Min({q \in p..Len(pat) : pat[q] \in {WSP, WSS}} \cup {Len(pat) + 1})

RECURSIVE MatchFrom(_, _, _, _)
RECURSIVE MatchLiterals(_, _, _, _, _)
\* the end of the match of pat[p..] at position at of s, -1 when none; in
\* every rule a whitespace token is followed by a character that is not
\* whitespace, so the greedy match is the only one
MatchFrom(s, at, pat, p) ==
    IF p > Len(pat) THEN at
    ELSE IF pat[p] = WSP
         THEN IF WsRun(s, at) >= 1
              THEN MatchFrom(s, at + WsRun(s, at), pat, p + 1) ELSE -1
    ELSE IF pat[p] = WSS
         THEN MatchFrom(s, at + WsRun(s, at), pat, p + 1)
    ELSE MatchLiterals(s, at, pat, p, NextWsToken(pat, p))

\* the same when pat[p..q-1] are literal characters
MatchLiterals(s, at, pat, p, q) ==
    IF /\ at + (q - p) <= Len(s)
       /\ \A i \in p..(q - 1) : LowerChar(s[at + 1 + (i - p)]) = pat[i]
    THEN MatchFrom(s, at + (q - p), pat, q)
    ELSE -1

\* pat, followed by $ when atEnd, matches s at position p
MatchesAt(s, pat, atEnd, p) ==
    /\ MatchFrom(s, p, pat, 1) >= 0
    /\ atEnd => MatchFrom(s, p, pat, 1) = Len(s)

\* the first position at or after at where the pattern matches, -1 when
\* none
NextMatch(s, pat, atEnd, at) ==
    IF \E p \in at..(Len(s) - 1) : MatchesAt(s, pat, atEnd, p)
    THEN Min({p \in at..(Len(s) - 1) : MatchesAt(s, pat, atEnd, p)})
    ELSE -1

RECURSIVE SubFrom(_, _, _, _, _)
RECURSIVE SubAt(_, _, _, _, _, _)
\* s[at:] with the matches of the pattern replaced, from the left
SubFrom(s, pat, atEnd, repl, at) ==
    SubAt(s, pat, atEnd, repl, at, NextMatch(s, pat, atEnd, at))

\* the same when the next match starts at p
SubAt(s, pat, atEnd, repl, at, p) ==
    IF p < 0 THEN Slice(s, at, Len(s))
    ELSE Slice(s, at, p) \o repl
             \o SubFrom(s, pat, atEnd, repl, MatchFrom(s, p, pat, 1))

\* re.sub(pattern, repl, s, flags=re.IGNORECASE); atEnd: the pattern ends
\* with $
Sub(s, pat, atEnd, repl) ==
    IF s = <<>> THEN <<>> ELSE SubFrom(s, pat, atEnd, repl, 0)

\* self.title_replacements, in the dict's order
title_replacements == <<
    [pat |-> <<"(", "o", "f", "f", "i", "c", "i", "a", "l", WSP, "m",
               "u", "s", "i", "c", WSP, "v", "i", "d", "e", "o", ")">>,
     atEnd |-> FALSE],
    [pat |-> <<"(", "o", "f", "f", "i", "c", "i", "a", "l", WSP, "v",
               "i", "d", "e", "o", ")">>,
     atEnd |-> FALSE],
    [pat |-> <<"(", "o", "f", "f", "i", "c", "i", "a", "l", WSP, "a",
               "u", "d", "i", "o", ")">>,
     atEnd |-> FALSE],
    [pat |-> <<"[", "o", "f", "f", "i", "c", "i", "a", "l", WSP, "m",
               "u", "s", "i", "c", WSP, "v", "i", "d", "e", "o", "]">>,
     atEnd |-> FALSE],
    [pat |-> <<"[", "o", "f", "f", "i", "c", "i", "a", "l", WSP, "v",
               "i", "d", "e", "o", "]">>,
     atEnd |-> FALSE],
    [pat |-> <<"[", "o", "f", "f", "i", "c", "i", "a", "l", WSP, "a",
               "u", "d", "i", "o", "]">>,
     atEnd |-> FALSE],
    [pat |-> <<"(", "m", "u", "s", "i", "c", WSP, "v", "i", "d", "e",
               "o", ")">>,
     atEnd |-> FALSE],
    [pat |-> <<"(", "a", "u", "d", "i", "o", WSP, "o", "n", "l", "y", ")">>,
     atEnd |-> FALSE],
    [pat |-> <<"(", "l", "y", "r", "i", "c", WSP, "v", "i", "d", "e",
               "o", ")">>,
     atEnd |-> FALSE],
    [pat |-> <<"(", "l", "y", "r", "i", "c", "s", ")">>,
     atEnd |-> FALSE],
    [pat |-> <<"(", "h", "d", ")">>,
     atEnd |-> FALSE],
    [pat |-> <<"(", "4", "k", ")">>,
     atEnd |-> FALSE],
    [pat |-> <<"(", "r", "e", "m", "a", "s", "t", "e", "r", "e", "d", ")">>,
     atEnd |-> FALSE],
    [pat |-> <<WSP, "-", WSP, "t", "o", "p", "i", "c">>,
     atEnd |-> TRUE],
    [pat |-> <<WSP, "-", WSP, "o", "f", "f", "i", "c", "i", "a", "l">>,
     atEnd |-> TRUE]
>>

MetadataWords ==
    {<<"r", "e", "m", "i", "x">>,
     <<"v", "e", "r", "s", "i", "o", "n">>,
     <<"e", "d", "i", "t">>,
     <<"m", "i", "x">>}

\* position of the first character close of s at or after at, -1 when none
FindChar(s, close, at) ==
    IF \E p \in at..(Len(s) - 1) : s[p + 1] = close
    THEN Min({p \in at..(Len(s) - 1) : s[p + 1] = close})
    ELSE -1

\* a span to remove starts at position p of s
BracketedAt(s, open, close, p) ==
    /\ s[p + 1] = open
    /\ FindChar(s, close, p + 1) >= 0
    /\ \E w \in MetadataWords :
           EndsWith(Lower(Slice(s, p + 1, FindChar(s, close, p + 1))), w)

\* the first position at or after at where a span to remove starts, -1
\* when none
NextBracketed(s, open, close, at) ==
    IF \E p \in at..(Len(s) - 1) : BracketedAt(s, open, close, p)
    THEN Min({p \in at..(Len(s) - 1) : BracketedAt(s, open, close, p)})
    ELSE -1

RECURSIVE SubBracketedFrom(_, _, _, _)
RECURSIVE SubBracketedAt(_, _, _, _, _)
\* s[at:] with the spans removed, from the left
SubBracketedFrom(s, open, close, at) ==
    SubBracketedAt(s, open, close, at, NextBracketed(s, open, close, at))

\* the same when the next span starts at p
SubBracketedAt(s, open, close, at, p) ==
    IF p < 0 THEN Slice(s, at, Len(s))
    ELSE Slice(s, at, p)
             \o SubBracketedFrom(s, open, close,
                                 FindChar(s, close, p + 1) + 1)

\* re.sub(r"\[[^\]]*(?:remix|version|edit|mix)\]", "", s, re.IGNORECASE)
\* and the same with parentheses: the span runs from an opening character
\* to the first closing one after it, and the word ends the span's content
SubBracketed(s, open, close) ==
    IF s = <<>> THEN <<>> ELSE SubBracketedFrom(s, open, close, 0)

\* variant: no rule of title_replacements applied
NoTitleReplacements(s, n) == s

RECURSIVE ApplyTitleReplacements(_, _)
ApplyTitleReplacements(s, n) ==
    IF s = <<>> \/ n > Len(title_replacements) THEN s
    ELSE ApplyTitleReplacements(
             Sub(s, title_replacements[n].pat, title_replacements[n].atEnd,
                 <<>>), n + 1)

DashChars == {" ", "-", "U+2013", "U+2014"}

\* clean_track_title of a cell
clean_track_title(cell) ==
    IF IsNa(cell) \/ cell[1] = <<>> THEN <<>>
    ELSE LET t1 == clean_text(cell)
             t2 == ApplyTitleReplacements(t1, 1)
             t3 == SubBracketed(t2, "[", "]")
             t4 == SubBracketed(t3, "(", ")")
             t5 == CollapseWs(t4)
         IN  StripChars(t5, DashChars)

----------------------------------------------------------------------------
(* clean_artist_name *)

\* self.artist_standardizations, in the dict's order
artist_standardizations == <<
    [old |-> <<"f", "t", ".">>,
     new |-> <<"f", "e", "a", "t", ".">>],
    [old |-> <<"f", "t", " ">>,
     new |-> <<"f", "e", "a", "t", ".", " ">>],
    [old |-> <<"f", "e", "a", "t", "u", "r", "i", "n", "g">>,
     new |-> <<"f", "e", "a", "t", ".">>],
    [old |-> <<" ", "&", " ">>,
     new |-> <<" ", "a", "n", "d", " ">>],
    [old |-> <<" ", "v", "s", " ">>,
     new |-> <<" ", "v", "s", ".", " ">>],
    [old |-> <<" ", "x", " ">>,
     new |-> <<" ", "f", "e", "a", "t", ".", " ">>]
>>

RECURSIVE ApplyArtistStandardizations(_, _)
ApplyArtistStandardizations(s, n) ==
    IF s = <<>> \/ n > Len(artist_standardizations) THEN s
    ELSE ApplyArtistStandardizations(
             Replace(s, artist_standardizations[n].old,
                     artist_standardizations[n].new), n + 1)

\* r"\s*-\s*Topic$"
TopicSuffix == <<WSS, "-", WSS, "t", "o", "p", "i", "c">>

Digits == {"0", "1", "2", "3", "4", "5", "6", "7", "8", "9"}

\* the regex class \w on the characters of the model's texts
IsWordChar(c) ==
    \/ \E i \in 1..Len(LowerChars) : c = LowerChars[i] \/ c = UpperChars[i]
    \/ c \in Digits \cup {"_", "U+00E9", "U+00E2", "U+0153"}

\* the regex assertion \b at position at of s
WordBoundary(s, at) ==
    LET before == at > 0 /\ IsWordChar(s[at])
        after == at < Len(s) /\ IsWordChar(s[at + 1])
    IN  before # after

Feat == <<"f", "e", "a", "t">>

\* the word "feat" stands at position p of s
FeatAt(s, p) ==
    /\ WordBoundary(s, p)
    /\ StartsWithAt(Lower(s), Feat, p)
    /\ WordBoundary(s, p + 4)

\* the first position at or after at where the word stands, -1 when none
NextFeat(s, at) ==
    IF \E p \in at..(Len(s) - 1) : FeatAt(s, p)
    THEN Min({p \in at..(Len(s) - 1) : FeatAt(s, p)})
    ELSE -1

RECURSIVE SubFeatFrom(_, _)
RECURSIVE SubFeatAt(_, _, _)
\* s[at:] with each "feat" and the "." after it, if any, made "feat."
SubFeatFrom(s, at) == SubFeatAt(s, at, NextFeat(s, at))

\* the same when the next "feat" stands at p
SubFeatAt(s, at, p) ==
    IF p < 0 THEN Slice(s, at, Len(s))
    ELSE Slice(s, at, p) \o Feat \o <<".">> \o
         SubFeatFrom(s, IF p + 4 < Len(s) /\ s[p + 5] = "."
                        THEN p + 5 ELSE p + 4)

\* re.sub(r"\bfeat\b\.?", "feat.", s, flags=re.IGNORECASE)
SubFeat(s) == IF s = <<>> THEN <<>> ELSE SubFeatFrom(s, 0)

\* clean_artist_name of a cell
clean_artist_name(cell) ==
    IF IsNa(cell) \/ cell[1] = <<>> THEN <<>>
    ELSE LET t1 == clean_text(cell)
             t2 == ApplyArtistStandardizations(t1, 1)
             t3 == Sub(t2, TopicSuffix, TRUE, <<>>)
             t4 == SubFeat(t3)
         IN  Strip(t4)

----------------------------------------------------------------------------
(* extract_artist_track_from_title *)

exclude_terms == {<<"o", "f", "f", "i", "c", "i", "a", "l">>,
                  <<"m", "u", "s", "i", "c">>,
                  <<"v", "i", "d", "e", "o">>,
                  <<"a", "u", "d", "i", "o">>,
                  <<"l", "y", "r", "i", "c", "s">>,
                  <<"h", "d">>,
                  <<"4", "k">>}

\* no "\n" in s[lo:hi]: what the regex "." matches
NoNewline(s, lo, hi) == \A i \in (lo + 1)..hi : s[i] # "\n"

\* s[lo:hi] matches \s*\(.*\) (open "(", close ")") or \s*\[.*\]
IsGroup(s, lo, hi, open, close) ==
    LET o == lo + WsRun(s, lo)
    IN  /\ o + 2 <= hi
        /\ s[o + 1] = open
        /\ s[hi] = close
        /\ NoNewline(s, o + 1, hi - 1)

\* s[at:] matches the end of pattern n: (?:\s*\(.*\))?(?:\s*\[.*\])?$ for
\* pattern 1, (?:\s*\(.*\))?$ for patterns 3 and 4
TailMatches(s, at, n) ==
    \/ at = Len(s)
    \/ IsGroup(s, at, Len(s), "(", ")")
    \/ /\ n = 1
       /\ \/ IsGroup(s, at, Len(s), "[", "]")
          \/ \E mid \in at..Len(s) :
                 /\ IsGroup(s, at, mid, "(", ")")
                 /\ IsGroup(s, mid, Len(s), "[", "]")

\* s[at:] matches \s*[""]\s* : the end of pattern 2, which has no $
QuoteFollows(s, at) ==
    LET q == at + WsRun(s, at)
    IN  q < Len(s) /\ s[q + 1] = "\""

\* the position after the separator of pattern n when s[at:] starts with
\* its leading whitespace and its mark, -1 otherwise
AfterMark(s, at, n) ==
    LET w == WsRun(s, at)
        m == at + w
    IN  CASE n = 1 -> IF m < Len(s) /\ s[m + 1] \in {"-", "U+2013", "U+2014"}
                      THEN m + 1 ELSE -1
          [] n = 2 -> IF m < Len(s) /\ s[m + 1] = "\"" THEN m + 1 ELSE -1
          [] n = 3 -> IF m < Len(s) /\ s[m + 1] = ":" THEN m + 1 ELSE -1
          [] n = 4 -> IF w >= 1 /\ StartsWithAt(Lower(s), <<"b", "y">>, m)
                      THEN m + 2 ELSE -1

\* the least whitespace the separator of pattern n needs after its mark
MinTrailingWs(n) == IF n = 4 THEN 1 ELSE 0

\* group 2 starting at g can end at e
Group2Ends(s, g, e, n) ==
    /\ g < e
    /\ e <= Len(s)
    /\ NoNewline(s, g, e)
    /\ IF n = 2 THEN QuoteFollows(s, e) ELSE TailMatches(s, e, n)

\* group 2 can start at g
Group2Starts(s, g, n) == \E e \in (g + 1)..Len(s) : Group2Ends(s, g, e, n)

\* the separator's mark can end at d, -1 standing for no mark
MarkEnds(s, d, n) ==
    /\ d >= 0
    /\ \E v \in MinTrailingWs(n)..WsRun(s, d) : Group2Starts(s, d + v, n)

\* group 1 can be s[0:n1]
Group1Ends(s, n1, n) ==
    NoNewline(s, 0, n1) /\ MarkEnds(s, AfterMark(s, n1, n), n)

\* the groups when group 1 is s[0:n1] and group 2 starts at g: group 2 is
\* lazy
GroupsFrom(s, n, n1, g) ==
    <<Slice(s, 0, n1),
      Slice(s, g, Min({x \in (g + 1)..Len(s) : Group2Ends(s, g, x, n)}))>>

\* the groups when group 1 is s[0:n1] and the mark ends at d: the
\* whitespace after the mark is greedy (the longest)
GroupsAfterMark(s, n, n1, d) ==
    GroupsFrom(s, n, n1,
               d + Max({x \in MinTrailingWs(n)..WsRun(s, d) :
                           Group2Starts(s, d + x, n)}))

\* the groups when ends holds the lengths group 1 can have: group 1 is
\* lazy (the shortest that lets the rest match)
GroupsOf(s, n, ends) ==
    IF ends = {} THEN <<>>
    ELSE GroupsAfterMark(s, n, Min(ends), AfterMark(s, Min(ends), n))

\* re.match(pattern n, s, re.IGNORECASE): <<>> when there is no match,
\* else <<group(1), group(2)>>
ReMatch(s, n) == GroupsOf(s, n, {x \in 1..Len(s) : Group1Ends(s, x, n)})

NumPatterns == 4

RECURSIVE ExtractFrom(_, _)
RECURSIVE ExtractMatch(_, _, _)
\* the loop over patterns
ExtractFrom(title, n) ==
    IF n > NumPatterns THEN <<NULL, Val(title)>>
    ELSE ExtractMatch(title, n, ReMatch(title, n))

\* the loop's body for the match m of pattern n: a match whose artist
\* holds an excluded term does not return, and the loop goes on to the
\* next pattern
ExtractMatch(title, n, m) ==
    IF m # <<>> /\ ~(\E t \in exclude_terms :
                        Contains(Lower(Strip(m[1])), t))
    THEN <<Val(Strip(m[1])), Val(Strip(m[2]))>>
    ELSE ExtractFrom(title, n + 1)

\* variant: no pattern tried
NoExtraction(title) == <<NULL, Val(title)>>

\* extract_artist_track_from_title(title): <<artist cell, track cell>>
extract_artist_track_from_title(title) ==
    IF title = <<>> THEN <<NULL, Val(<<>>)>>
    ELSE ExtractFrom(title, 1)

----------------------------------------------------------------------------
(* Numeric columns.  A cell of a numeric column as loaded holds            *)
(* [num |-> n], a number, or [text |-> s], a text the database stored in   *)
(* its place; after pd.to_numeric it holds a plain number.                 *)

DigitChars == <<"0", "1", "2", "3", "4", "5", "6", "7", "8", "9">>

IsDigit(c) == \E d \in 1..10 : DigitChars[d] = c

DigitValue(c) == (CHOOSE d \in 1..10 : DigitChars[d] = c) - 1

RECURSIVE ParseInt(_)
\* int(s) for a text of digits
ParseInt(s) ==
    IF s = <<>> THEN 0
    ELSE 10 * ParseInt(Slice(s, 0, Len(s) - 1)) + DigitValue(s[Len(s)])

RECURSIVE DigitRun(_, _)
DigitRun(s, at) ==
    IF at < Len(s) /\ IsDigit(s[at + 1]) THEN 1 + DigitRun(s, at + 1) ELSE 0

\* pd.to_numeric(column, errors="coerce") on one cell
ToNumeric(cell) ==
    IF IsNa(cell) THEN NULL
    ELSE IF "num" \in DOMAIN cell[1] THEN Val(cell[1].num)
    ELSE LET t == Strip(cell[1].text)
         IN  IF t # <<>> /\ DigitRun(t, 0) = Len(t)
             THEN Val(ParseInt(t)) ELSE NULL

\* .fillna(0) on one cell
FillNa0(cell) == IF IsNa(cell) THEN Val(0) ELSE cell

\* parse_duration: re.match(r"PT(?:(\d+)M)?(?:(\d+)S)?", duration_str)
parse_duration(cell) ==
    IF IsNa(cell) \/ cell[1] = <<>> THEN 0
    ELSE LET s == cell[1]
             m == DigitRun(s, 2)
             hasM == m >= 1 /\ 2 + m < Len(s) /\ s[2 + m + 1] = "M"
             at == IF hasM THEN 2 + m + 1 ELSE 2
             n == DigitRun(s, at)
             hasS == n >= 1 /\ at + n < Len(s) /\ s[at + n + 1] = "S"
             minutes == IF hasM THEN ParseInt(Slice(s, 2, 2 + m)) ELSE 0
             seconds == IF hasS THEN ParseInt(Slice(s, at, at + n)) ELSE 0
         IN  IF StartsWithAt(s, <<"P", "T">>, 0)
             THEN minutes * 60 + seconds ELSE 0

\* parse_additional_info and parse_tags: a JSON cell holds
\* [valid |-> TRUE, value |-> v] when json.loads accepts its text
ParseJson(cell, empty) ==
    IF IsNa(cell) \/ cell[1] = <<>> THEN empty
    ELSE IF cell[1].valid THEN cell[1].value ELSE empty

----------------------------------------------------------------------------
(* Tables *)

Entry(label, row) == [label |-> label, row |-> row]

\* a fresh RangeIndex: labels 0 .. n-1
RangeIndexed(rows) == [p \in 1..Len(rows) |-> Entry(p - 1, rows[p])]

Labels(df) == {df[p].label : p \in 1..Len(df)}

IsEmpty(df) == Len(df) = 0

\* df.loc[label]
Loc(df, label) == df[CHOOSE p \in 1..Len(df) : df[p].label = label].row

\* df.iloc[n] exists
ILocInBounds(df, n) == n < Len(df)

\* df.iloc[n]
ILoc(df, n) == df[n + 1].row

\* df.drop(index=list(labels)).reset_index(drop=True)
DropAndReset(df, labels) ==
    LET Stays(e) == e.label \notin labels
        kept == SelectSeq(df, Stays)
    IN  [p \in 1..Len(kept) |-> Entry(p - 1, kept[p].row)]

----------------------------------------------------------------------------
(* detect_duplicates *)

\* similarity_threshold's default, 0.85, in hundredths
DefaultThreshold == 85

\* variant: the test written "if i > j: continue", which lets i = j through
NotAfter(i, j) == ~(i > j)

\* variant: the test written "if i <= j: continue"
LowerTriangle(i, j) == ~(i <= j)

\* "if i >= j: continue" lets the pair through
UpperTriangle(i, j) == ~(i >= j)

\* variant: the two comparisons joined by "or"
EitherSimilar(row1, row2, thr) ==
    \/ RatioAtLeast(Lower(row1.clean_track_name[1]),
                    Lower(row2.clean_track_name[1]), thr)
    \/ RatioAtLeast(Lower(row1.clean_artist_name[1]),
                    Lower(row2.clean_artist_name[1]), thr)

\* variant: the artist comparison left out
TitleSimilar(row1, row2, thr) ==
    RatioAtLeast(Lower(row1.clean_track_name[1]),
                 Lower(row2.clean_track_name[1]), thr)

\* track_similarity >= similarity_threshold and
\* artist_similarity >= similarity_threshold
IsDuplicatePair(row1, row2, thr) ==
    /\ RatioAtLeast(Lower(row1.clean_track_name[1]),
                    Lower(row2.clean_track_name[1]), thr)
    /\ RatioAtLeast(Lower(row1.clean_artist_name[1]),
                    Lower(row2.clean_artist_name[1]), thr)

\* pd.DataFrame(duplicates) for the pairs of positions hits
DuplicatesOf(df, hits) ==
    [m \in 1..Len(hits) |->
        [index1 |-> df[hits[m][1]].label,
         index2 |-> df[hits[m][2]].label]]

\* detect_duplicates(df, thr): the rows of the returned table, in the order
\* of the two nested iterrows loops
detect_duplicates(df, thr) ==
    LET n == Len(df)
        all == [m \in 1..(n * n) |-> <<((m - 1) \div n) + 1,
                                         ((m - 1) % n) + 1>>]
        Hit(pq) == /\ UpperTriangle(df[pq[1]].label, df[pq[2]].label)
                   /\ IsDuplicatePair(df[pq[1]].row, df[pq[2]].row, thr)
    IN  DuplicatesOf(df, SelectSeq(all, Hit))

----------------------------------------------------------------------------
(* merge_duplicate_records *)

\* the bonus for a record with view_count
VideoBonus == 10

\* variant: the score without the bonus
ScoreWithoutBonus(row) == Cardinality({c \in DOMAIN row : NotNa(row[c])})

\* row.notna().sum(), plus the bonus
Score(row) ==
    Cardinality({c \in DOMAIN row : NotNa(row[c])})
    + (IF "view_count" \in DOMAIN row /\ NotNa(row["view_count"])
       THEN VideoBonus ELSE 0)

\* the label added to indices_to_remove for a live pair
LabelToRemove(idx1, idx2, row1, row2) ==
    IF Score(row1) >= Score(row2) THEN idx2 ELSE idx1

\* variant: the test written with "not in"
EitherPresent(dup, removed) ==
    dup.index1 \notin removed \/ dup.index2 \notin removed

\* the pair is skipped
PairSkipped(dup, removed) ==
    dup.index1 \in removed \/ dup.index2 \in removed

----------------------------------------------------------------------------
(* merge_cross_source_duplicates *)

\* variant: the values of row2 taking precedence over those of row1
OverwritingRow(row1, row2) ==
    [col \in DOMAIN row1 |->
        IF NotNa(row2[col]) THEN row2[col] ELSE row1[col]]

\* variant: row1 left as it is
UnmergedRow(row1, row2) == row1

\* variant: the merged row tagged with the source of row2
TaggedByOther(row1, row2) ==
    [col \in DOMAIN row1 |->
        IF col = "source" \/ (IsNa(row1[col]) /\ NotNa(row2[col]))
        THEN row2[col] ELSE row1[col]]

\* merged_row: row1 with its missing values filled from row2
MergedRow(row1, row2) ==
    [col \in DOMAIN row1 |->
        IF IsNa(row1[col]) /\ NotNa(row2[col]) THEN row2[col] ELSE row1[col]]

\* df.iloc[n] = row
SetILoc(df, n, row) == [df EXCEPT ![n + 1].row = row]

\* variant: the first label marked instead of the second
FirstLabel(idx1, idx2) == idx1

\* the label marked for removal for a live pair
CrossLabelToRemove(idx1, idx2) == idx2

----------------------------------------------------------------------------
(* clean_chart_data, before its duplicate detection *)

\* pd.read_sql_query("SELECT * FROM ...") of a table with AUTOINCREMENT id
LoadTable(rows) ==
    RangeIndexed([p \in 1..Len(rows) |-> [id |-> Val(p)] @@ rows[p]])

\* the columns clean_chart_data adds to a row, and position made numeric
ChartCleanedRow(row) ==
    [clean_track_name |-> Val(clean_track_title(row.track_name)),
     clean_artist_name |-> Val(clean_artist_name(row.artist_name)),
     additional_info_parsed |-> Val(ParseJson(row.additional_info, "{}")),
     position |-> ToNumeric(row.position)] @@ row

\* variant: the two conditions of the mask joined by "|"
EitherKept(row) ==
    row.clean_track_name # Val(<<>>) \/ row.clean_artist_name # Val(<<>>)

\* (df["clean_track_name"] != "") & (df["clean_artist_name"] != "")
ChartRowKept(row) ==
    row.clean_track_name # Val(<<>>) /\ row.clean_artist_name # Val(<<>>)

\* df at the call of detect_duplicates
ChartCleaned(rows) ==
    LET df == LoadTable(rows)
        cleaned == [p \in 1..Len(df) |->
                       Entry(df[p].label, ChartCleanedRow(df[p].row))]
        Kept(e) == ChartRowKept(e.row)
    IN  SelectSeq(cleaned, Kept)

----------------------------------------------------------------------------
(* clean_youtube_data *)

\* Python truth of an extracted value: neither None nor ""
Truthy(cell) == NotNa(cell) /\ cell[1] # <<>>

\* the columns clean_youtube_data adds to a row once its title and channel
\* are cleaned and its title is split into extracted
YoutubeColumns(row, clean_title, clean_channel, extracted) ==
    [clean_title |-> Val(clean_title),
     clean_channel |-> Val(clean_channel),
     extracted_artist |-> extracted[1],
     extracted_track |-> extracted[2],
     final_artist |-> IF Truthy(extracted[1]) THEN extracted[1]
                      ELSE Val(clean_channel),
     final_track |-> IF Truthy(extracted[2]) THEN extracted[2]
                     ELSE Val(clean_title),
     view_count |-> FillNa0(ToNumeric(row.view_count)),
     like_count |-> FillNa0(ToNumeric(row.like_count)),
     comment_count |-> FillNa0(ToNumeric(row.comment_count)),
     duration_seconds |-> Val(parse_duration(row.duration)),
     tags_list |-> Val(ParseJson(row.tags, "[]"))] @@ row

\* the row once its title and channel are cleaned
YoutubeExtracted(row, clean_title, clean_channel) ==
    YoutubeColumns(row, clean_title, clean_channel,
                   extract_artist_track_from_title(clean_title))

YoutubeCleanedRow(row) ==
    YoutubeExtracted(row, clean_track_title(row.title),
                     clean_artist_name(row.channel_title))

\* (df["final_track"] != "") & (df["final_artist"] != "")
YoutubeRowKept(row) ==
    row.final_track # Val(<<>>) /\ row.final_artist # Val(<<>>)

\* the table clean_youtube_data returns
YoutubeCleaned(rows) ==
    LET df == LoadTable(rows)
        cleaned == [p \in 1..Len(df) |->
                       Entry(df[p].label, YoutubeCleanedRow(df[p].row))]
        Kept(e) == YoutubeRowKept(e.row)
    IN  SelectSeq(cleaned, Kept)

----------------------------------------------------------------------------
(* create_unified_dataset: the projection *)

ChartRecord(row) ==
    [track_name |-> row.clean_track_name,
     artist_name |-> row.clean_artist_name,
     source |-> Val("chart"),
     chart_name |-> row.chart_name,
     chart_position |-> row.position,
     chart_date |-> row.chart_date,
     view_count |-> NULL,
     like_count |-> NULL,
     duration_seconds |-> NULL,
     original_title |-> row.track_name,
     original_artist |-> row.artist_name]

YoutubeRecord(row) ==
    [track_name |-> row.final_track,
     artist_name |-> row.final_artist,
     source |-> Val("youtube"),
     chart_name |-> NULL,
     chart_position |-> NULL,
     chart_date |-> NULL,
     view_count |-> row.view_count,
     like_count |-> row.like_count,
     duration_seconds |-> row.duration_seconds,
     original_title |-> row.title,
     original_artist |-> row.channel_title]

\* pd.DataFrame(unified_records)
Unified(chart, youtube) ==
    RangeIndexed([p \in 1..Len(chart) |-> ChartRecord(chart[p].row)]
                 \o [p \in 1..Len(youtube) |-> YoutubeRecord(youtube[p].row)])

\* unified_df.rename(columns={"track_name": "clean_track_name",
\*                            "artist_name": "clean_artist_name"})
Renamed(df) ==
    [p \in 1..Len(df) |->
        Entry(df[p].label,
              [c \in (DOMAIN df[p].row \ {"track_name", "artist_name"})
                     \cup {"clean_track_name", "clean_artist_name"} |->
                  IF c = "clean_track_name" THEN df[p].row.track_name
                  ELSE IF c = "clean_artist_name" THEN df[p].row.artist_name
                  ELSE df[p].row[c]])]

----------------------------------------------------------------------------
(* Inputs of the model *)

MaxChart == 4       \* most rows of chart_data

MaxVideo == 2       \* most rows of youtube_videos

SeqsUpTo(S, n) == UNION {[1..m -> S] : m \in 0..n}

Num(n) == Val([num |-> n])

Text(s) == Val([text |-> s])

T_abc == <<"a", "b", "c">>

T_abc_hd == <<"a", "b", "c", " ", "(", "H", "D", ")">>

T_xyz == <<"x", "y", "z">>

T_dash == <<"-">>

T_hd == <<"(", "H", "D", ")">>

T_artist == <<"U+00E9">>

T_artist_abc == <<"U+00E9", " ", "-", " ", "a", "b", "c">>

T_channel == <<"V", "E", "V", "O">>

ChartRow(track, artist, position) ==
    [track_name |-> Val(track),
     artist_name |-> Val(artist),
     position |-> position,
     chart_name |-> Val(<<"t", "o", "p">>),
     chart_date |-> Val(<<"2", "0", "2", "5">>),
     additional_info |-> NULL,
     created_at |-> Val(<<"n", "o", "w">>)]

\* rows of chart_data: a title of punctuation only, a track with its
\* position, the same track with boilerplate and an unparsable position,
\* another track
ChartCatalogue ==
    {ChartRow(T_dash, T_artist, Num(1)),
     ChartRow(T_abc, T_artist, Num(1)),
     ChartRow(T_abc_hd, T_artist, Text(<<"?">>)),
     ChartRow(T_xyz, T_artist, Num(2))}

VideoRow(video_id, title, channel, views) ==
    [video_id |-> Val(video_id),
     title |-> Val(title),
     channel_title |-> channel,
     published_at |-> Val(<<"2", "0", "2", "5">>),
     view_count |-> views,
     like_count |-> NULL,
     comment_count |-> Num(0),
     duration |-> Val(<<"P", "T", "1", "M", "2", "S">>),
     tags |-> NULL,
     category_id |-> Val(<<"1", "0">>),
     thumbnail_url |-> NULL,
     collected_at |-> Val(<<"n", "o", "w">>)]

\* rows of youtube_videos: "artist - track" on another channel, the track
\* on the artist's channel, boilerplate only with no channel
VideoCatalogue ==
    {VideoRow(<<"v", "1">>, T_artist_abc, Val(T_channel), Num(5)),
     VideoRow(<<"v", "2">>, T_abc, Val(T_artist), Num(7)),
     VideoRow(<<"v", "3">>, T_hd, NULL, Num(9))}

\* video_id is UNIQUE in youtube_videos
UniqueVideoIds(rows) ==
    \A p, q \in 1..Len(rows) : rows[p].video_id = rows[q].video_id => p = q

----------------------------------------------------------------------------
(* create_unified_dataset as a run: one action per stage, one per          *)
(* iteration of a merge loop                                               *)

Init ==
    /\ pc = "start"
    /\ chart_in \in SeqsUpTo(ChartCatalogue, MaxChart)
    /\ video_in \in {rows \in SeqsUpTo(VideoCatalogue, MaxVideo) :
                        UniqueVideoIds(rows)}
    /\ chart_df = <<>>
    /\ youtube_df = <<>>
    /\ unified_df = <<>>
    /\ duplicates = <<>>
    /\ k = 0
    /\ indices_to_remove = {}
    /\ threshold = DefaultThreshold
    /\ raised = ""
    /\ args = <<>>
    /\ result = <<>>

\* clean_chart_data up to its call of detect_duplicates; an empty table is
\* returned as loaded
CleanChart ==
    /\ pc = "start"
    /\ chart_df' = IF IsEmpty(LoadTable(chart_in)) THEN <<>>
                   ELSE ChartCleaned(chart_in)
    /\ pc' = IF IsEmpty(LoadTable(chart_in)) THEN "youtube"
             ELSE "chart_detect"
    /\ UNCHANGED <<chart_in, video_in, youtube_df, unified_df, duplicates, k,
                   indices_to_remove, threshold, raised>>
    /\ UNCHANGED <<args, result>>

\* duplicates = self.detect_duplicates(df); merge_duplicate_records is
\* called when the result is not empty
DetectChart ==
    /\ pc = "chart_detect"
    /\ duplicates' = detect_duplicates(chart_df, threshold)
    /\ pc' = IF IsEmpty(duplicates') THEN "youtube" ELSE "chart_merge"
    /\ k' = 0
    /\ indices_to_remove' = {}
    /\ UNCHANGED <<chart_in, video_in, chart_df, youtube_df, unified_df,
                   threshold, raised>>
    /\ UNCHANGED <<args, result>>

\* one iteration of merge_duplicate_records's loop: df.iloc raises
\* IndexError for a label that is no position of df
MergeStep ==
    /\ pc = "chart_merge"
    /\ k < Len(duplicates)
    /\ LET dup == duplicates[k + 1]
           idx1 == dup.index1
           idx2 == dup.index2
       IN  IF PairSkipped(dup, indices_to_remove)
           THEN /\ k' = k + 1
                /\ UNCHANGED <<pc, indices_to_remove, raised>>
           ELSE IF ~(ILocInBounds(chart_df, idx1)
                     /\ ILocInBounds(chart_df, idx2))
           THEN /\ pc' = "failed"
                /\ raised' = "IndexError"
                /\ UNCHANGED <<k, indices_to_remove>>
           ELSE /\ indices_to_remove' = indices_to_remove \cup
                       {LabelToRemove(idx1, idx2, ILoc(chart_df, idx1),
                                      ILoc(chart_df, idx2))}
                /\ k' = k + 1
                /\ UNCHANGED <<pc, raised>>
    /\ UNCHANGED <<chart_in, video_in, chart_df, youtube_df, unified_df,
                   duplicates, threshold>>
    /\ UNCHANGED <<args, result>>

\* the end of merge_duplicate_records: drop and reset_index
MergeDone ==
    /\ pc = "chart_merge"
    /\ k = Len(duplicates)
    /\ chart_df' = DropAndReset(chart_df, indices_to_remove)
    /\ pc' = "youtube"
    /\ duplicates' = <<>>
    /\ k' = 0
    /\ indices_to_remove' = {}
    /\ UNCHANGED <<chart_in, video_in, youtube_df, unified_df, threshold,
                   raised>>
    /\ UNCHANGED <<args, result>>

\* clean_youtube_data; an empty table is returned as loaded
CleanYoutube ==
    /\ pc = "youtube"
    /\ youtube_df' = IF IsEmpty(LoadTable(video_in)) THEN <<>>
                     ELSE YoutubeCleaned(video_in)
    /\ pc' = "project"
    /\ UNCHANGED <<chart_in, video_in, chart_df, unified_df, duplicates, k,
                   indices_to_remove, threshold, raised>>
    /\ UNCHANGED <<args, result>>

\* unified_df = pd.DataFrame(unified_records); an empty one is returned
Project ==
    /\ pc = "project"
    /\ unified_df' = Unified(chart_df, youtube_df)
    /\ pc' = IF IsEmpty(unified_df') THEN "done" ELSE "cross_detect"
    /\ UNCHANGED <<chart_in, video_in, chart_df, youtube_df, duplicates, k,
                   indices_to_remove, threshold, raised>>
    /\ UNCHANGED <<args, result>>

\* duplicates = self.detect_duplicates(unified_df.rename(...))
DetectCross ==
    /\ pc = "cross_detect"
    /\ duplicates' = detect_duplicates(Renamed(unified_df), threshold)
    /\ pc' = IF IsEmpty(duplicates') THEN "done" ELSE "cross_merge"
    /\ k' = 0
    /\ indices_to_remove' = {}
    /\ UNCHANGED <<chart_in, video_in, chart_df, youtube_df, unified_df,
                   threshold, raised>>
    /\ UNCHANGED <<args, result>>

\* one iteration of merge_cross_source_duplicates's loop
CrossStep ==
    /\ pc = "cross_merge"
    /\ k < Len(duplicates)
    /\ LET dup == duplicates[k + 1]
           idx1 == dup.index1
           idx2 == dup.index2
       IN  IF PairSkipped(dup, indices_to_remove)
           THEN /\ k' = k + 1
                /\ UNCHANGED <<pc, unified_df, indices_to_remove, raised>>
           ELSE IF ~(ILocInBounds(unified_df, idx1)
                     /\ ILocInBounds(unified_df, idx2))
           THEN /\ pc' = "failed"
                /\ raised' = "IndexError"
                /\ UNCHANGED <<k, unified_df, indices_to_remove>>
           ELSE /\ unified_df' =
                       SetILoc(unified_df, idx1,
                               MergedRow(ILoc(unified_df, idx1),
                                         ILoc(unified_df, idx2)))
                /\ indices_to_remove' = indices_to_remove \cup
                       {CrossLabelToRemove(idx1, idx2)}
                /\ k' = k + 1
                /\ UNCHANGED <<pc, raised>>
    /\ UNCHANGED <<chart_in, video_in, chart_df, youtube_df, duplicates,
                   threshold>>
    /\ UNCHANGED <<args, result>>

\* the end of merge_cross_source_duplicates: drop and reset_index
CrossDone ==
    /\ pc = "cross_merge"
    /\ k = Len(duplicates)
    /\ unified_df' = DropAndReset(unified_df, indices_to_remove)
    /\ pc' = "done"
    /\ duplicates' = <<>>
    /\ k' = 0
    /\ indices_to_remove' = {}
    /\ UNCHANGED <<chart_in, video_in, chart_df, youtube_df, threshold,
                   raised>>
    /\ UNCHANGED <<args, result>>

Next ==
    \/ CleanChart
    \/ DetectChart
    \/ MergeStep
    \/ MergeDone
    \/ CleanYoutube
    \/ Project
    \/ DetectCross
    \/ CrossStep
    \/ CrossDone

Spec == Init /\ [][Next]_vars

----------------------------------------------------------------------------
(* Properties of the run *)

\* a step of merge_duplicate_records's loop that scores a live pair and
\* marks a label
MergeScored ==
    /\ pc = "chart_merge"
    /\ pc' = "chart_merge"
    /\ k' = k + 1
    /\ ~PairSkipped(duplicates[k + 1], indices_to_remove)

\* a step of merge_cross_source_duplicates's loop that merges a live pair
CrossMerged ==
    /\ pc = "cross_merge"
    /\ pc' = "cross_merge"
    /\ k' = k + 1
    /\ ~PairSkipped(duplicates[k + 1], indices_to_remove)

\* C1: a step of the cross-source merge loop leaves every non-null field of
\* every record of the unified table as it was
C1_NonNullFieldsKept ==
    [][(pc = "cross_merge" /\ pc' = "cross_merge") =>
          \A l \in Labels(unified_df) :
              \A col \in DOMAIN Loc(unified_df, l) :
                  NotNa(Loc(unified_df, l)[col]) =>
                      Loc(unified_df', l)[col] = Loc(unified_df, l)[col]]_vars

\* a chart record has absorbed two videos with different view counts and
\* holds the view count of the first
C1_FirstValueKept ==
    /\ pc = "cross_merge"
    /\ Len(unified_df) = 3
    /\ {1, 2} \subseteq indices_to_remove
    /\ unified_df[1].row.source = Val("chart")
    /\ unified_df[1].row.view_count = unified_df[2].row.view_count
    /\ unified_df[3].row.view_count # unified_df[2].row.view_count

\* the label the same-source rule removes for the records labelled idx1
\* and idx2: the lower score, and idx2 on equal scores
LowerScored(df, idx1, idx2) ==
    IF Score(Loc(df, idx1)) >= Score(Loc(df, idx2)) THEN idx2 ELSE idx1

\* C2: a step of the same-source loop that scores the live pair (i, j)
\* marks the one of records i and j that has the lower completeness score,
\* and record j when the scores are equal
C2_LowerScoreRemoved ==
    [][MergeScored =>
          indices_to_remove' = indices_to_remove \cup
              {LowerScored(chart_df, duplicates[k + 1].index1,
                           duplicates[k + 1].index2)}]_vars

\* C3: no two video records that are duplicate candidates of each other
\* both reach the cross-source detection
C3_VideosResolvedBeforeCross ==
    pc = "cross_detect" =>
        \A p, q \in 1..Len(unified_df) :
            (/\ p < q
             /\ unified_df[p].row.source = Val("youtube")
             /\ unified_df[q].row.source = Val("youtube"))
            => ~IsDuplicatePair(Renamed(unified_df)[p].row,
                                Renamed(unified_df)[q].row, threshold)

\* both columns of the row hold a text that is not empty
NonEmpty(row, track, artist) == Truthy(row[track]) /\ Truthy(row[artist])

\* C4: the table given to each duplicate detection, the table under the
\* cross-source merge and the final unified table hold only records whose
\* cleaned track title and cleaned artist name are not empty
C4_NonEmptyTitleAndArtist ==
    /\ pc \in {"chart_detect", "chart_merge"} =>
           \A p \in 1..Len(chart_df) :
               NonEmpty(chart_df[p].row, "clean_track_name",
                        "clean_artist_name")
    /\ pc \in {"cross_detect", "cross_merge", "done"} =>
           \A p \in 1..Len(unified_df) :
               NonEmpty(unified_df[p].row, "track_name", "artist_name")

\* a run that dropped a chart row and a video for empty identity has ended
\* with records in its output
C4_DroppedAndDone ==
    /\ pc = "done"
    /\ \E p \in 1..Len(chart_in) : chart_in[p].track_name = Val(T_dash)
    /\ \E p \in 1..Len(video_in) : video_in[p].title = Val(T_hd)
    /\ Len(unified_df) >= 2

\* C5: a step of the cross-source loop that merges the live pair
\* (idx1, idx2) marks idx2 and not idx1, and leaves record idx1 holding
\* idx2's value in every field that was null on idx1 and non-null on idx2
C5_FirstSurvivesFilled ==
    [][CrossMerged =>
          LET idx1 == duplicates[k + 1].index1
              idx2 == duplicates[k + 1].index2
          IN  /\ indices_to_remove' = indices_to_remove \cup {idx2}
              /\ idx1 \notin indices_to_remove'
              /\ idx1 \in Labels(unified_df')
              /\ \A col \in DOMAIN Loc(unified_df, idx1) :
                     (IsNa(Loc(unified_df, idx1)[col])
                      /\ NotNa(Loc(unified_df, idx2)[col]))
                     => Loc(unified_df', idx1)[col]
                            = Loc(unified_df, idx2)[col]]_vars

\* a chart record has been given the view count of a video, and the video
\* is marked
C5_ChartFilledFromVideo ==
    /\ pc = "cross_merge"
    /\ k >= 1
    /\ 1 \in indices_to_remove
    /\ unified_df[1].row.source = Val("chart")
    /\ unified_df[2].row.source = Val("youtube")
    /\ NotNa(unified_df[1].row.view_count)
    /\ unified_df[1].row.view_count = unified_df[2].row.view_count

\* C10: no stage of the run raises
C10_NoStageRaises == raised = ""

----------------------------------------------------------------------------
(* generate_cleaning_report, on the counts of the tables the run loaded    *)
(* and the table it returned                                               *)

\* variant: the videos left out of the records removed
ReportOfCharts(original_chart_count, original_youtube_count, final_count) ==
    [original_chart_records |-> original_chart_count,
     original_youtube_records |-> original_youtube_count,
     total_original_records |-> original_chart_count + original_youtube_count,
     final_unified_records |-> final_count,
     total_removed |-> original_chart_count - final_count]

\* variant: the records removed counted from the final count upwards
ReportFromFinal(original_chart_count, original_youtube_count, final_count) ==
    [original_chart_records |-> original_chart_count,
     original_youtube_records |-> original_youtube_count,
     total_original_records |-> original_chart_count + original_youtube_count,
     final_unified_records |-> final_count,
     total_removed |-> final_count
                       - (original_chart_count + original_youtube_count)]

\* the report, but for cleaning_timestamp, which is the clock's reading
generate_cleaning_report(original_chart_count, original_youtube_count, final_count) ==
    [original_chart_records |-> original_chart_count,
     original_youtube_records |-> original_youtube_count,
     total_original_records |-> original_chart_count + original_youtube_count,
     final_unified_records |-> final_count,
     total_removed |-> (original_chart_count + original_youtube_count)
                       - final_count]

\* the report of a run, from SELECT COUNT(*) of the two tables and
\* len(unified_df)
Report ==
    generate_cleaning_report(Len(chart_in), Len(video_in), Len(unified_df))

\* what tells the records of one source apart in the unified table: the
\* source and the title as it was loaded
ChartKey(row) == <<Val("chart"), row.track_name>>

VideoKey(row) == <<Val("youtube"), row.title>>

RecordKey(row) == <<row.source, row.original_title>>

InputKeys(chart, video) ==
    [p \in 1..Len(chart) |-> ChartKey(chart[p])]
        \o [p \in 1..Len(video) |-> VideoKey(video[p])]

OutputKeys(df) == [p \in 1..Len(df) |-> RecordKey(df[p].row)]

Count(keys, key) == Cardinality({p \in 1..Len(keys) : keys[p] = key})

\* how many of the input records are no record of the output: for each
\* key, the input records that hold it beyond the output records that do
RECURSIVE NotInOutput(_, _, _)
NotInOutput(keys, ins, outs) ==
    IF keys = {} THEN 0
    ELSE LET key == CHOOSE x \in keys : TRUE
         IN  Max({Count(ins, key) - Count(outs, key), 0})
                 + NotInOutput(keys \ {key}, ins, outs)

Range(seq) == {seq[p] : p \in 1..Len(seq)}

\* the chart rows and the videos the masks of the two cleaning stages drop
ChartRowEmptied(row) == ~ChartRowKept(ChartCleanedRow(row))

VideoEmptied(row) == ~YoutubeRowKept(YoutubeCleanedRow(row))

\* C11: in the output of a finished run there is no record of an input
\* whose cleaned title or artist is empty, and the report's total_removed
\* is the number of input records that are no record of the output
C11_EmptiedCountedRemoved ==
    pc = "done" =>
        /\ \A p \in 1..Len(chart_in) :
               ChartRowEmptied(chart_in[p]) =>
                   ChartKey(chart_in[p]) \notin Range(OutputKeys(unified_df))
        /\ \A p \in 1..Len(video_in) :
               VideoEmptied(video_in[p]) =>
                   VideoKey(video_in[p]) \notin Range(OutputKeys(unified_df))
        /\ Report.total_removed =
               NotInOutput(Range(InputKeys(chart_in, video_in)),
                           InputKeys(chart_in, video_in),
                           OutputKeys(unified_df))

\* a finished run whose input held a video of boilerplate only on no
\* channel and two chart rows of one track, with a record in its output
\* and both the video and a chart row counted as removed
C11_VideoDroppedAndCounted ==
    /\ pc = "done"
    /\ \E p \in 1..Len(video_in) : VideoEmptied(video_in[p])
    /\ Len(video_in) = 1
    /\ Len(chart_in) = 2
    /\ Len(unified_df) = 1
    /\ Report.total_removed = 2

----------------------------------------------------------------------------
(* The numeric columns of the cleaned tables *)

\* a loaded cell that is missing or that to_numeric cannot parse
Unparsable(cell) == IsNa(ToNumeric(cell))

\* numeric_cols of clean_youtube_data
numeric_cols == {"view_count", "like_count", "comment_count"}

\* C12: a chart position and a video count that are missing or unparsable
\* in the loaded row are null in the cleaned row
C12_UnparsableIsNull ==
    /\ pc = "chart_detect" =>
           \A p \in 1..Len(chart_df) :
               Unparsable(chart_in[chart_df[p].label + 1].position)
                   => IsNa(chart_df[p].row.position)
    /\ pc = "project" =>
           \A p \in 1..Len(youtube_df) :
               \A col \in numeric_cols :
                   Unparsable(video_in[youtube_df[p].label + 1][col])
                       => IsNa(youtube_df[p].row[col])

----------------------------------------------------------------------------
(* The source of a record of the unified table *)

\* the source column, row by row
Sources(df) == [p \in 1..Len(df) |-> df[p].row.source]

\* the rows of df whose labels are not in labels, in their order
RowsKept(df, labels) ==
    LET Stays(e) == e.label \notin labels
    IN  SelectSeq(df, Stays)

\* C17: the projection tags the records of the chart table "chart" and
\* those of the video table "youtube"; a step of the cross-source merge
\* loop leaves the source of every record as it was, and the end of the
\* merge hands out the records that were not removed, in their order, each
\* with the source it had
C17_SourceNeverChanges ==
    [][/\ pc = "project" =>
             Sources(unified_df') =
                 [p \in 1..Len(chart_df) |-> Val("chart")]
                 \o [p \in 1..Len(youtube_df) |-> Val("youtube")]
       /\ (pc = "cross_merge" /\ pc' \in {"cross_merge", "failed"}) =>
             Sources(unified_df') = Sources(unified_df)
       /\ (pc = "cross_merge" /\ pc' = "done") =>
             Sources(unified_df') =
                 Sources(RowsKept(unified_df, indices_to_remove))]_vars

\* the final table holds fewer records than were projected, and one of
\* them is a chart record holding the view count of a video
C17_ChartTagAfterAbsorbing ==
    /\ pc = "done"
    /\ Len(unified_df) < Len(chart_df) + Len(youtube_df)
    /\ \E p \in 1..Len(unified_df) :
           /\ unified_df[p].row.source = Val("chart")
           /\ NotNa(unified_df[p].row.view_count)

----------------------------------------------------------------------------
(* The pairs of the two merge loops *)

\* the loop at hand has a pair left
PairAtHand == pc \in {"chart_merge", "cross_merge"} /\ k < Len(duplicates)

\* the table the loop at hand works on
TableAtHand(chart, unified) == IF pc = "chart_merge" THEN chart ELSE unified

\* the rows of after are those of before, but for the row at position n
\* (from 0) when may_change
SameButAt(before, after, n, may_change) ==
    /\ Len(after) = Len(before)
    /\ \A p \in 1..Len(before) :
           (p # n + 1 \/ ~may_change) => after[p] = before[p]

\* C24: the step of a merge loop on a pair with a member already removed
\* leaves the removed set and every record as they were; the step on any
\* other pair adds exactly one of the pair's two labels to the removed set,
\* takes none out of it, and changes no record but, in the cross-source
\* loop, the first of the pair
C24_SkippedOrOneRemoved ==
    [][PairAtHand =>
          IF PairSkipped(duplicates[k + 1], indices_to_remove)
          THEN /\ indices_to_remove' = indices_to_remove
               /\ chart_df' = chart_df
               /\ unified_df' = unified_df
          ELSE /\ \E l \in {duplicates[k + 1].index1,
                             duplicates[k + 1].index2} :
                      /\ l \notin indices_to_remove
                      /\ indices_to_remove' = indices_to_remove \cup {l}
               /\ SameButAt(TableAtHand(chart_df, unified_df),
                            TableAtHand(chart_df', unified_df'),
                            duplicates[k + 1].index1,
                            pc = "cross_merge")]_vars

\* the loop at hand has gone through all its pairs
PairsDone == pc \in {"chart_merge", "cross_merge"} /\ k = Len(duplicates)

\* C26: when a merge loop has gone through all its pairs, the step that
\* ends the stage hands on the rows whose labels are not in the removed
\* set, and no pair of the stage's candidate list has both its labels
\* among them
C26_NoCandidatePairSurvives ==
    [][PairsDone =>
          /\ Len(TableAtHand(chart_df', unified_df')) =
                 Len(RowsKept(TableAtHand(chart_df, unified_df),
                              indices_to_remove))
          /\ \A m \in 1..Len(duplicates) :
                 ~({duplicates[m].index1, duplicates[m].index2} \subseteq
                       Labels(RowsKept(TableAtHand(chart_df, unified_df),
                                       indices_to_remove)))]_vars

\* the chart loop has gone through three pairs of three rows and removed
\* two of the rows, the third pair skipped
C26_ThreePairsTwoRemoved ==
    /\ pc = "chart_merge"
    /\ k = 3
    /\ Len(duplicates) = 3
    /\ Len(chart_df) = 3
    /\ Cardinality(indices_to_remove) = 2

\* the removed set of the cross-source loop after one more pair
CrossRemovedWith(removed, dup) ==
    IF dup.index1 \in removed \/ dup.index2 \in removed THEN removed
    ELSE removed \cup {dup.index2}

RECURSIVE CrossRemoved(_, _)
\* the removed set of the cross-source loop after the first n pairs of dups
CrossRemoved(dups, n) ==
    IF n = 0 THEN {}
    ELSE CrossRemovedWith(CrossRemoved(dups, n - 1), dups[n])

\* pair m of dups was live when the loop came to it
WasLive(dups, m) ==
    CrossRemovedWith(CrossRemoved(dups, m - 1), dups[m])
        # CrossRemoved(dups, m - 1)

\* the records that have absorbed another in the first n pairs of dups
Absorbers(dups, n) == {dups[m].index1 : m \in {x \in 1..n : WasLive(dups, x)}}

\* C27: in the cross-source loop the removed records are the second
\* members of the pairs that were live when the loop came to them, no
\* record that has absorbed another is removed, and every removed record
\* was absorbed by a record that is not removed
C27_AbsorberNeverRemoved ==
    pc = "cross_merge" =>
        /\ indices_to_remove = CrossRemoved(duplicates, k)
        /\ Absorbers(duplicates, k) \cap indices_to_remove = {}
        /\ \A l \in indices_to_remove :
               \E m \in 1..k :
                   /\ WasLive(duplicates, m)
                   /\ duplicates[m].index2 = l
                   /\ duplicates[m].index1 \notin indices_to_remove

\* the cross-source loop is through three pairs of three records: the
\* first record has absorbed the two others, and the pair of these two
\* was skipped
C27_AbsorberOfTwoKept ==
    /\ pc = "cross_merge"
    /\ k = 3
    /\ Len(duplicates) = 3
    /\ indices_to_remove = {1, 2}
    /\ Absorbers(duplicates, k) = {0}
    /\ ~WasLive(duplicates, 3)

\* the columns of a record of the unified table that the projection of a
\* chart row fills, and those it leaves to the videos
chart_kept_cols ==
    {"track_name", "artist_name", "original_title", "original_artist"}

video_cols == {"view_count", "like_count", "duration_seconds"}

\* the step merges a live pair of a chart record and a video
ChartVideoMerged ==
    /\ CrossMerged
    /\ {Loc(unified_df, duplicates[k + 1].index1).source,
        Loc(unified_df, duplicates[k + 1].index2).source}
           = {Val("chart"), Val("youtube")}

\* the chart record c survives the step with the video v removed, tagged
\* "chart" and with its own titles and artists
ChartSurvives(c, v) ==
    /\ Loc(unified_df, c).source = Val("chart")
    /\ Loc(unified_df, v).source = Val("youtube")
    /\ indices_to_remove' = indices_to_remove \cup {v}
    /\ c \notin indices_to_remove'
    /\ Loc(unified_df', c).source = Val("chart")
    /\ \A col \in chart_kept_cols :
           Loc(unified_df', c)[col] = Loc(unified_df, c)[col]

\* C29 as stated: a step that merges a live pair of a chart record and a
\* video leaves the chart record, the first of the pair, as the survivor,
\* with view_count, like_count and duration_seconds those of the video
C29_ChartTakesVideoCounts ==
    [][ChartVideoMerged =>
          /\ ChartSurvives(duplicates[k + 1].index1, duplicates[k + 1].index2)
          /\ \A col \in video_cols :
                 Loc(unified_df', duplicates[k + 1].index1)[col]
                     = Loc(unified_df, duplicates[k + 1].index2)[col]]_vars

\* C29: a step that merges a live pair of a chart record and a video
\* leaves the chart record, the first of the pair, as the survivor, with
\* each of view_count, like_count and duration_seconds that of the video
\* when the chart record held none, and the one it held otherwise
C29_ChartTakesMissingCounts ==
    [][ChartVideoMerged =>
          /\ ChartSurvives(duplicates[k + 1].index1, duplicates[k + 1].index2)
          /\ \A col \in video_cols :
                 Loc(unified_df', duplicates[k + 1].index1)[col]
                     = IF IsNa(Loc(unified_df,
                                   duplicates[k + 1].index1)[col])
                       THEN Loc(unified_df, duplicates[k + 1].index2)[col]
                       ELSE Loc(unified_df,
                                duplicates[k + 1].index1)[col]]_vars

\* a chart record has absorbed a video and then a second one with another
\* view count: it holds the three counts of the first
C29_SecondVideoAbsorbed ==
    /\ pc = "cross_merge"
    /\ \E c, v, w \in Labels(unified_df) :
           /\ c < v /\ v < w
           /\ {v, w} \subseteq indices_to_remove
           /\ c \notin indices_to_remove
           /\ Loc(unified_df, c).source = Val("chart")
           /\ Loc(unified_df, v).source = Val("youtube")
           /\ Loc(unified_df, w).source = Val("youtube")
           /\ Loc(unified_df, w).view_count # Loc(unified_df, v).view_count
           /\ \A col \in video_cols :
                  /\ NotNa(Loc(unified_df, c)[col])
                  /\ Loc(unified_df, c)[col] = Loc(unified_df, v)[col]

\* the record labelled l is a member of no pair of the candidate list
InNoPair(dups, l) ==
    \A m \in 1..Len(dups) : dups[m].index1 # l /\ dups[m].index2 # l

\* the rows of a table, in its order
Rows(df) == [p \in 1..Len(df) |-> df[p].row]

\* the step of a merge stage leaves the records of no pair in place and as
\* they were; within the loop it changes no record of the same-source
\* table at all, and at the end of the stage it hands on the rows that
\* are not removed, as they are and in their order
FrameKept(before, after) ==
    /\ \A l \in Labels(before) :
           InNoPair(duplicates, l) => l \notin indices_to_remove'
    /\ pc' = pc =>
           /\ pc = "chart_merge" => after = before
           /\ \A l \in Labels(before) :
                  InNoPair(duplicates, l) =>
                      /\ l \in Labels(after)
                      /\ Loc(after, l) = Loc(before, l)
    /\ pc' # pc =>
           Rows(after) = Rows(RowsKept(before, indices_to_remove))

\* C30: no step of a merge stage raises, and every step leaves the records
\* of no candidate pair in place with their fields as they were, changes
\* no record in the same-source loop, and at the end of the stage hands on
\* the records that are not removed in their order
C30_OnlyLivePairsChanged ==
    [][(pc \in {"chart_merge", "cross_merge"}) =>
          /\ pc' # "failed"
          /\ FrameKept(TableAtHand(chart_df, unified_df),
                       TableAtHand(chart_df', unified_df'))]_vars

----------------------------------------------------------------------------
(* detect_duplicates on its own: on any table of cleaned rows, with the    *)
(* labels a mask leaves, at the default threshold and at 1.0               *)

MaxDetect == 4      \* most rows of a table given to detect_duplicates

T_Abc == <<"A", "b", "c">>

T_abc_xyz == <<"a", "b", "c", " ", "x", "y", "z">>

T_abc_xyzs == <<"a", "b", "c", " ", "x", "y", "z", "s">>

CleanedRow(track, artist) ==
    [clean_track_name |-> Val(track), clean_artist_name |-> Val(artist)]

\* cleaned rows: a track, the same in another case, the same by another
\* artist, and two longer titles one character apart
DetectCatalogue ==
    {CleanedRow(T_abc, T_artist),
     CleanedRow(T_Abc, T_artist),
     CleanedRow(T_abc, T_xyz),
     CleanedRow(T_abc_xyz, T_artist),
     CleanedRow(T_abc_xyzs, T_artist)}

\* df[mask] of a freshly indexed table: the rows at the places in keep,
\* each with the label it had
Masked(rows, keep) ==
    LET Kept(e) == (e.label + 1) \in keep
    IN  SelectSeq(RangeIndexed(rows), Kept)

DetectTables ==
    {Masked(rows, keep) : rows \in SeqsUpTo(DetectCatalogue, MaxDetect),
                          keep \in SUBSET (1..MaxDetect)}

\* similarity_threshold, in hundredths: the default and 1.0
Thresholds == {DefaultThreshold, 100}

InitDetect ==
    /\ pc = "chart_detect"
    /\ chart_in = <<>>
    /\ video_in = <<>>
    /\ chart_df \in DetectTables
    /\ youtube_df = <<>>
    /\ unified_df = <<>>
    /\ duplicates = <<>>
    /\ k = 0
    /\ indices_to_remove = {}
    /\ threshold \in Thresholds
    /\ raised = ""
    /\ args = <<>>
    /\ result = <<>>

NextDetect == DetectChart

SpecDetect == InitDetect /\ [][NextDetect]_vars

\* the pairs of labels a duplicates table holds
PairsOf(dups) == {<<dups[m].index1, dups[m].index2>> : m \in 1..Len(dups)}

\* the title similarity, and the artist similarity, of the records
\* labelled i and j is at least thr
TitlesSimilar(df, i, j, thr) ==
    RatioAtLeast(Lower(Loc(df, i).clean_track_name[1]),
                 Lower(Loc(df, j).clean_track_name[1]), thr)

ArtistsSimilar(df, i, j, thr) ==
    RatioAtLeast(Lower(Loc(df, i).clean_artist_name[1]),
                 Lower(Loc(df, j).clean_artist_name[1]), thr)

\* C7: detect_duplicates returns the pair (i, j) if and only if i < j and
\* the title similarity and the artist similarity of records i and j are
\* both at least the threshold
C7_PairIffBothSimilar ==
    [][DetectChart =>
          PairsOf(duplicates') =
              {ij \in Labels(chart_df) \X Labels(chart_df) :
                  /\ ij[1] < ij[2]
                  /\ TitlesSimilar(chart_df, ij[1], ij[2], threshold)
                  /\ ArtistsSimilar(chart_df, ij[1], ij[2], threshold)}]_vars

\* a detection has returned a pair and left out a pair whose titles are
\* similar and whose artists are not
C7_ReturnedAndLeftOut ==
    /\ pc = "chart_merge"
    /\ Len(duplicates) >= 1
    /\ \E i, j \in Labels(chart_df) :
           /\ i < j
           /\ TitlesSimilar(chart_df, i, j, threshold)
           /\ ~ArtistsSimilar(chart_df, i, j, threshold)
           /\ <<i, j>> \notin PairsOf(duplicates)

\* C8: the table detect_duplicates returns holds no pair (i, i), and holds
\* each unordered pair of records at most once
C8_NoSelfPairNoRepeat ==
    /\ \A m \in 1..Len(duplicates) :
           duplicates[m].index1 # duplicates[m].index2
    /\ \A m, n \in 1..Len(duplicates) :
           {duplicates[m].index1, duplicates[m].index2}
               = {duplicates[n].index1, duplicates[n].index2} => m = n

\* a detection over three records has returned all three pairs
C8_ThreePairs ==
    /\ pc = "chart_merge"
    /\ Len(chart_df) = 3
    /\ Len(duplicates) = 3

\* C9 as stated: at threshold 1.0 every returned pair has equal clean
\* titles and equal clean artists
C9_ExactlyEqual ==
    threshold = 100 =>
        \A m \in 1..Len(duplicates) :
            /\ Loc(chart_df, duplicates[m].index1).clean_track_name
                   = Loc(chart_df, duplicates[m].index2).clean_track_name
            /\ Loc(chart_df, duplicates[m].index1).clean_artist_name
                   = Loc(chart_df, duplicates[m].index2).clean_artist_name

\* C9: at threshold 1.0 every returned pair has clean titles that are
\* equal once lower-cased and clean artists that are equal once lower-cased
C9_EqualIgnoringCase ==
    threshold = 100 =>
        \A m \in 1..Len(duplicates) :
            /\ Lower(Loc(chart_df, duplicates[m].index1).clean_track_name[1])
                 = Lower(Loc(chart_df,
                             duplicates[m].index2).clean_track_name[1])
            /\ Lower(Loc(chart_df, duplicates[m].index1).clean_artist_name[1])
                 = Lower(Loc(chart_df,
                             duplicates[m].index2).clean_artist_name[1])

\* at threshold 1.0 a detection has returned a pair whose titles differ in
\* case, and has left out a pair whose titles are one character apart
C9_CaseVariantReturned ==
    /\ threshold = 100
    /\ Len(duplicates) = 1
    /\ Loc(chart_df, duplicates[1].index1).clean_track_name
           # Loc(chart_df, duplicates[1].index2).clean_track_name
    /\ \E i, j \in Labels(chart_df) :
           /\ Loc(chart_df, i).clean_track_name = Val(T_abc_xyz)
           /\ Loc(chart_df, j).clean_track_name = Val(T_abc_xyzs)

----------------------------------------------------------------------------
(* merge_duplicate_records on its own: on tables of records with the same  *)
(* cleaned title and artist, with view_count and the twelve other columns  *)
(* of youtube_videos, indexed from 0 or, a leading row masked out, from 1  *)

MaxMerge == 3       \* most rows of a table given to the merge

OtherColumns ==
    <<"video_id", "title", "channel_title", "published_at", "like_count",
      "comment_count", "duration", "tags", "category_id", "thumbnail_url",
      "collected_at", "id">>

\* a record with view_count views and its first n other columns populated
WideRow(views, n) ==
    [c \in {OtherColumns[i] : i \in 1..Len(OtherColumns)} |->
        IF \E i \in 1..n : OtherColumns[i] = c THEN Val(<<"v">>) ELSE NULL]
    @@ [clean_track_name |-> Val(T_abc),
        clean_artist_name |-> Val(T_artist),
        view_count |-> views]

\* numbers of other columns populated
PopulatedCounts == {0, 1, 11, 12}

MergeCatalogue ==
    {WideRow(views, n) : views \in {NULL, Val(5)}, n \in PopulatedCounts}

\* the table whose labels start at first
LabelledFrom(rows, first) ==
    [p \in 1..Len(rows) |-> Entry(first + p - 1, rows[p])]

MergeTables ==
    {LabelledFrom(rows, first) : rows \in SeqsUpTo(MergeCatalogue, MaxMerge),
                                 first \in {0, 1}}

InitMerge ==
    /\ pc = "chart_detect"
    /\ chart_in = <<>>
    /\ video_in = <<>>
    /\ chart_df \in MergeTables
    /\ youtube_df = <<>>
    /\ unified_df = <<>>
    /\ duplicates = <<>>
    /\ k = 0
    /\ indices_to_remove = {}
    /\ threshold = DefaultThreshold
    /\ raised = ""
    /\ args = <<>>
    /\ result = <<>>

NextMerge ==
    \/ DetectChart
    \/ MergeStep
    \/ MergeDone

SpecMerge == InitMerge /\ [][NextMerge]_vars

\* the index labels of df are its row positions
PositionalIndex(df) == \A p \in 1..Len(df) : df[p].label = p - 1

\* number of populated fields of the row other than view_count
OtherFields(row) ==
    Cardinality({c \in DOMAIN row \ {"view_count"} : NotNa(row[c])})

\* the step scores the live pair of records a and b of a table indexed by
\* position; they have the same cleaned title and artist, a has view_count
\* set and b has not
ViewedAgainstUnviewed(a, b) ==
    /\ PositionalIndex(chart_df)
    /\ MergeScored
    /\ {a, b} = {duplicates[k + 1].index1, duplicates[k + 1].index2}
    /\ Loc(chart_df, a).clean_track_name = Loc(chart_df, b).clean_track_name
    /\ Loc(chart_df, a).clean_artist_name = Loc(chart_df, b).clean_artist_name
    /\ NotNa(Loc(chart_df, a).view_count)
    /\ IsNa(Loc(chart_df, b).view_count)

----------------------------------------------------------------------------
(* create_unified_dataset on the tracks of two charts and one video: the   *)
(* same run, started from tables of these rows                             *)

MaxExampleChart == 3    \* most rows of chart_data

MaxExampleVideo == 1    \* most rows of youtube_videos

T_shape_of_you ==
    <<"S", "h", "a", "p", "e", " ", "o", "f", " ", "Y", "o", "u">>

T_shape_of_you_video ==
    <<"S", "h", "a", "p", "e", " ", "o", "f", " ", "Y", "o", "u", " ", "(",
      "O", "f", "f", "i", "c", "i", "a", "l", " ", "V", "i", "d", "e",
      "o", ")">>

T_ed_sheeran ==
    <<"E", "d", " ", "S", "h", "e", "e", "r", "a", "n">>

T_levitating ==
    <<"L", "e", "v", "i", "t", "a", "t", "i", "n", "g">>

T_dua_lipa ==
    <<"D", "u", "a", " ", "L", "i", "p", "a">>

T_dua_lipa_video ==
    <<"D", "u", "a", " ", "L", "i", "p", "a", " ", "-", " ", "L", "e", "v",
      "i", "t", "a", "t", "i", "n", "g", " ", "(", "O", "f", "f", "i",
      "c", "i", "a", "l", " ", "M", "u", "s", "i", "c", " ", "V", "i",
      "d", "e", "o", ")">>

ShapeRow == ChartRow(T_shape_of_you, T_ed_sheeran, Num(1))

ShapeVideoRow == ChartRow(T_shape_of_you_video, T_ed_sheeran, Num(2))

LevitatingRow == ChartRow(T_levitating, T_dua_lipa, Num(3))

LevitatingVideo ==
    VideoRow(<<"v", "4">>, T_dua_lipa_video, Val(T_dua_lipa), Num(5000000))

ExampleChart == {ShapeRow, ShapeVideoRow, LevitatingRow}

ExampleVideo == {LevitatingVideo}

InitExample ==
    /\ pc = "start"
    /\ chart_in \in SeqsUpTo(ExampleChart, MaxExampleChart)
    /\ video_in \in {rows \in SeqsUpTo(ExampleVideo, MaxExampleVideo) :
                        UniqueVideoIds(rows)}
    /\ chart_df = <<>>
    /\ youtube_df = <<>>
    /\ unified_df = <<>>
    /\ duplicates = <<>>
    /\ k = 0
    /\ indices_to_remove = {}
    /\ threshold = DefaultThreshold
    /\ raised = ""
    /\ args = <<>>
    /\ result = <<>>

SpecExample == InitExample /\ [][Next]_vars

\* the records of df that came of a row with one of the titles
RecordsOf(df, titles) ==
    {p \in 1..Len(df) : df[p].row.original_title \in titles}

\* C13: the output of a run on a chart table that holds "Shape of You" and
\* "Shape of You (Official Video)", both by Ed Sheeran, has exactly one
\* record of them, and its title is "Shape of You"
C13_OneShapeOfYou ==
    (/\ pc = "done"
     /\ {ShapeRow, ShapeVideoRow} \subseteq Range(chart_in))
    => /\ Cardinality(RecordsOf(unified_df, {Val(T_shape_of_you),
                                             Val(T_shape_of_you_video)})) = 1
       /\ \A p \in 1..Len(unified_df) :
              unified_df[p].row.track_name = Val(T_shape_of_you)
                  <=> p \in RecordsOf(unified_df,
                                      {Val(T_shape_of_you),
                                       Val(T_shape_of_you_video)})

\* the run on the row with "(Official Video)" and then the plain one has
\* ended with the first as its one record, under the cleaned title
C13_VideoTitledSurvives ==
    /\ pc = "done"
    /\ chart_in = <<ShapeVideoRow, ShapeRow>>
    /\ Len(unified_df) = 1
    /\ unified_df[1].row.original_title = Val(T_shape_of_you_video)
    /\ unified_df[1].row.track_name = Val(T_shape_of_you)

\* the records of df with the track name
RecordsTitled(df, title) ==
    {p \in 1..Len(df) : df[p].row.track_name = Val(title)}

\* C14: the output of a run on the video "Dua Lipa - Levitating (Official
\* Music Video)" of channel "Dua Lipa" with 5000000 views and the chart
\* row "Levitating" by "Dua Lipa" at position 3 has exactly one record
\* named "Levitating", by "Dua Lipa", with view_count 5000000 and
\* chart_position 3
C14_OneLevitatingWithBoth ==
    (/\ pc = "done"
     /\ LevitatingRow \in Range(chart_in)
     /\ LevitatingVideo \in Range(video_in))
    => /\ Cardinality(RecordsTitled(unified_df, T_levitating)) = 1
       /\ Cardinality(RecordsOf(unified_df, {Val(T_levitating),
                                             Val(T_dua_lipa_video)})) = 1
       /\ \A p \in RecordsTitled(unified_df, T_levitating) :
              /\ unified_df[p].row.artist_name = Val(T_dua_lipa)
              /\ unified_df[p].row.view_count = Val(5000000)
              /\ unified_df[p].row.chart_position = Val(3)

\* the run on the chart row and the video alone has ended with the chart
\* record as its one record, holding the video's view count
C14_ChartRecordHoldsViews ==
    /\ pc = "done"
    /\ chart_in = <<LevitatingRow>>
    /\ video_in = <<LevitatingVideo>>
    /\ Len(unified_df) = 1
    /\ unified_df[1].row.source = Val("chart")
    /\ unified_df[1].row.original_title = Val(T_levitating)
    /\ unified_df[1].row.view_count = Val(5000000)

----------------------------------------------------------------------------
(* extract_artist_track_from_title on its own: one call on a title made of *)
(* a few parts                                                             *)

MaxTitleParts == 5      \* most parts of a title

\* a word, the marks of the four patterns, and an excluded term
TitleParts ==
    {<<"a">>, <<"-">>, <<"\"">>, <<":">>, <<" ", "b", "y", " ">>,
     <<"h", "d">>}

RECURSIVE Flatten(_)
Flatten(parts) ==
    IF parts = <<>> THEN <<>> ELSE Head(parts) \o Flatten(Tail(parts))

Titles == {Flatten(parts) : parts \in SeqsUpTo(TitleParts, MaxTitleParts)}

\* a call of a method that reads no table: its arguments in args
InitCall(calls) ==
    /\ pc = "call"
    /\ args \in calls
    /\ result = <<>>
    /\ chart_in = <<>>
    /\ video_in = <<>>
    /\ chart_df = <<>>
    /\ youtube_df = <<>>
    /\ unified_df = <<>>
    /\ duplicates = <<>>
    /\ k = 0
    /\ indices_to_remove = {}
    /\ threshold = DefaultThreshold
    /\ raised = ""

InitExtract == InitCall({<<title>> : title \in Titles})

CallExtract ==
    /\ pc = "call"
    /\ result' = extract_artist_track_from_title(args[1])
    /\ pc' = "returned"
    /\ UNCHANGED <<chart_in, video_in, chart_df, youtube_df, unified_df,
                   duplicates, k, indices_to_remove, threshold, raised, args>>

NextExtract == CallExtract

SpecExtract == InitExtract /\ [][NextExtract]_vars

\* the patterns that match title
Matching(title) == {n \in 1..NumPatterns : ReMatch(title, n) # <<>>}

\* the artist holds one of exclude_terms
Excluded(artist) == \E t \in exclude_terms : Contains(Lower(artist), t)

\* what the match m of a pattern gives when it alone decides
DecidedBy(title, m) ==
    IF Excluded(Strip(m[1])) THEN <<NULL, Val(title)>>
    ELSE <<Val(Strip(m[1])), Val(Strip(m[2]))>>

\* what the first of the matching patterns gives when it alone decides
DecidedByFirst(title, matching) ==
    IF matching = {} THEN <<NULL, Val(title)>>
    ELSE DecidedBy(title, ReMatch(title, Min(matching)))

\* C15: the call returns what the first pattern that matches the title
\* decides: no artist and the title when its artist holds an excluded
\* term, whatever the later patterns match, and no artist and the title
\* when no pattern matches
C15_FirstMatchDecides ==
    pc = "returned" => result = DecidedByFirst(args[1], Matching(args[1]))

----------------------------------------------------------------------------
(* The run under its caller: create_unified_dataset called with args, and  *)
(* clean_and_process_data's handling of what it returns or raises          *)

MaxCallChart == 3       \* most rows of chart_data

MaxCallVideo == 1       \* most rows of youtube_videos

\* a threshold a caller may want, in hundredths
OtherThreshold == 70

\* the arguments a caller gives: none, or a threshold
CallerArgs == {<<>>, <<[similarity_threshold |-> OtherThreshold]>>}

InitCaller ==
    /\ pc = "call"
    /\ args \in CallerArgs
    /\ result = <<>>
    /\ chart_in \in SeqsUpTo(ChartCatalogue, MaxCallChart)
    /\ video_in \in {rows \in SeqsUpTo(VideoCatalogue, MaxCallVideo) :
                        UniqueVideoIds(rows)}
    /\ chart_df = <<>>
    /\ youtube_df = <<>>
    /\ unified_df = <<>>
    /\ duplicates = <<>>
    /\ k = 0
    /\ indices_to_remove = {}
    /\ threshold = DefaultThreshold
    /\ raised = ""

\* def create_unified_dataset(self): a call with an argument raises
\* TypeError before the body runs
Enter ==
    /\ pc = "call"
    /\ pc' = IF args = <<>> THEN "start" ELSE "rejected"
    /\ raised' = IF args = <<>> THEN "" ELSE "TypeError"
    /\ UNCHANGED <<chart_in, video_in, chart_df, youtube_df, unified_df,
                   duplicates, k, indices_to_remove, threshold, args, result>>

\* what clean_and_process_data hands on: the table it returns and the
\* table it saved as cleaned_music_data, NULL when it saved none
Outcome(returned, saved) ==
    [returned |-> returned, cleaned_music_data |-> saved]

\* clean_and_process_data when create_unified_dataset returns: a table
\* that is not empty is saved and returned, else an empty one is returned
Returned ==
    /\ pc = "done"
    /\ result' = IF IsEmpty(unified_df) THEN Outcome(<<>>, NULL)
                 ELSE Outcome(unified_df, Val(unified_df))
    /\ pc' = "returned"
    /\ UNCHANGED <<chart_in, video_in, chart_df, youtube_df, unified_df,
                   duplicates, k, indices_to_remove, threshold, raised, args>>

\* clean_and_process_data's except clause: the frames of the run are left,
\* and with them their tables; an empty table is returned
Caught ==
    /\ pc = "failed"
    /\ result' = Outcome(<<>>, NULL)
    /\ pc' = "returned"
    /\ chart_df' = <<>>
    /\ youtube_df' = <<>>
    /\ unified_df' = <<>>
    /\ duplicates' = <<>>
    /\ k' = 0
    /\ indices_to_remove' = {}
    /\ UNCHANGED <<chart_in, video_in, threshold, raised, args>>

NextCaller ==
    \/ Enter
    \/ Next
    \/ Returned
    \/ Caught

SpecCaller == InitCaller /\ [][NextCaller]_vars

\* C16: when a stage has raised, the caller still holds the chart rows
\* that survived the cleaning stage completed before it, and no table is
\* returned or saved
C16_SurvivorsKeptOnFailure ==
    (pc = "returned" /\ raised # "") =>
        /\ chart_df = ChartCleaned(chart_in)
        /\ result = Outcome(<<>>, NULL)

\* the threshold the caller asks for: the one in args, the default when
\* args holds none
ThresholdAsked ==
    IF args = <<>> THEN DefaultThreshold ELSE args[1].similarity_threshold

\* C20: a call that supplies a threshold is carried out, and the chart and
\* the cross-source detection run at the threshold the caller asked for,
\* the default when the caller asked for none
C20_CallerThresholdUsed ==
    /\ raised # "TypeError"
    /\ pc \in {"chart_detect", "cross_detect"} => threshold = ThresholdAsked

----------------------------------------------------------------------------
(* The similarity of two texts on its own: the ratio detect_duplicates      *)
(* computes for the first and the second row of a pair, and its comparison *)
(* with the threshold                                                      *)

MaxTextLen == 4

TextAlphabet == {"a", "b"}

T_aaaaaba == <<"a", "a", "a", "a", "a", "b", "a">>

T_aabaaab == <<"a", "a", "b", "a", "a", "a", "b">>

\* the short texts, and two longer ones
RatioTexts == SeqsUpTo(TextAlphabet, MaxTextLen) \cup {T_aaaaaba, T_aabaaab}

\* SequenceMatcher(None, a.lower(), b.lower()).ratio(), as the fraction
\* 2 * matches / length; 1.0 when both texts are empty
Similarity(a, b) ==
    IF Len(a) + Len(b) = 0 THEN <<1, 1>>
    ELSE <<2 * MatchedChars(Lower(a), Lower(b), 0, Len(a), 0, Len(b)),
           Len(a) + Len(b)>>

InitRatio == InitCall({<<a, b>> : a \in RatioTexts, b \in RatioTexts})

\* the two lines of detect_duplicates that score the texts of row1 and row2
CallRatio ==
    /\ pc = "call"
    /\ result' = [ratio |-> Similarity(args[1], args[2]),
                  similar |-> RatioAtLeast(Lower(args[1]), Lower(args[2]),
                                           threshold)]
    /\ pc' = "returned"
    /\ UNCHANGED <<chart_in, video_in, chart_df, youtube_df, unified_df,
                   duplicates, k, indices_to_remove, threshold, raised, args>>

NextRatio == CallRatio

SpecRatio == InitRatio /\ [][NextRatio]_vars

\* C18: the ratio of two texts is the ratio of the same texts taken in the
\* other order, and so is its comparison with the threshold
C18_SimilaritySymmetric ==
    pc = "returned" =>
        /\ result.ratio = Similarity(args[2], args[1])
        /\ result.similar = RatioAtLeast(Lower(args[2]), Lower(args[1]),
                                         threshold)

----------------------------------------------------------------------------
(* clean_text on its own: one call on a missing value or on a short text   *)
(* of letters, whitespace, the characters of the encoding artifacts and a  *)
(* letter NFKD decomposes                                                  *)

MaxCleanLen == 4

CleanAlphabet == {"a", " ", "\t", "U+00E9", "U+00E2", "U+20AC", "U+2122"}

T_a_b == <<"a", " ", " ", " ", "b">>

CleanTexts == SeqsUpTo(CleanAlphabet, MaxCleanLen) \cup {T_a_b}

InitCleanText == InitCall({<<NULL>>} \cup {<<Val(t)>> : t \in CleanTexts})

CallCleanText ==
    /\ pc = "call"
    /\ result' = clean_text(args[1])
    /\ pc' = "returned"
    /\ UNCHANGED <<chart_in, video_in, chart_df, youtube_df, unified_df,
                   duplicates, k, indices_to_remove, threshold, raised, args>>

NextCleanText == CallCleanText

SpecCleanText == InitCleanText /\ [][NextCleanText]_vars

\* C19: clean_text of what clean_text returned is what it returned, and
\* clean_text of a missing value or of the empty text is the empty text
C19_CleanTextIdempotent ==
    pc = "returned" =>
        /\ clean_text(Val(result)) = result
        /\ (IsNa(args[1]) \/ args[1] = Val(<<>>)) => result = <<>>

\* the text of an encoding artifact after a space has been cleaned: the
\* space is gone and the characters are decomposed
C19_ArtifactCleaned ==
    /\ pc = "returned"
    /\ args[1] = Val(<<" ", "U+00E2", "U+20AC", "U+2122">>)
    /\ result = <<"a", "U+0302", "U+20AC", "T", "M">>

----------------------------------------------------------------------------
(* clean_track_title on its own: one call on a title made of a few parts,  *)
(* or on such a title followed by a space and a phrase of                  *)
(* title_replacements in lower or in upper case                            *)

MaxCleanTitleParts == 3

CleanTitleParts ==
    {<<"a">>, <<" ">>, <<"-">>, <<"(", "r", "e", "m", "i", "x">>, <<")">>,
     <<"[", "m", "i", "x">>, <<"]">>,
     <<" ", "-", " ", "T", "o", "p", "i", "c">>, <<"(", "H", "D", ")">>}

\* str.upper() on one character
UpperChar(c) ==
    IF \E i \in 1..Len(LowerChars) : LowerChars[i] = c
    THEN UpperChars[CHOOSE i \in 1..Len(LowerChars) : LowerChars[i] = c]
    ELSE c

\* str.upper()
Upper(s) == [i \in 1..Len(s) |-> UpperChar(s[i])]

\* a text the pattern matches: each \s+ a space, each character itself
PhraseOf(pat) == [i \in 1..Len(pat) |-> IF pat[i] = WSP THEN " " ELSE pat[i]]

\* the phrases of title_replacements, in lower and in upper case
Phrases ==
    UNION {{PhraseOf(title_replacements[n].pat),
            Upper(PhraseOf(title_replacements[n].pat))} :
           n \in 1..Len(title_replacements)}

\* the titles of at most n parts
TitlesOf(n) == {Flatten(parts) : parts \in SeqsUpTo(CleanTitleParts, n)}

\* title followed by a space and phrase
Appended(title, phrase) == title \o <<" ">> \o phrase

CleanTitles ==
    TitlesOf(MaxCleanTitleParts)
    \cup {Appended(t, ph) : t \in TitlesOf(MaxCleanTitleParts - 1),
                            ph \in Phrases}

InitCleanTitle == InitCall({<<Val(t)>> : t \in CleanTitles})

CallCleanTitle ==
    /\ pc = "call"
    /\ result' = clean_track_title(args[1])
    /\ pc' = "returned"
    /\ UNCHANGED <<chart_in, video_in, chart_df, youtube_df, unified_df,
                   duplicates, k, indices_to_remove, threshold, raised, args>>

NextCleanTitle == CallCleanTitle

SpecCleanTitle == InitCleanTitle /\ [][NextCleanTitle]_vars

\* the title ends with a space and phrase
EndsWithPhrase(title, phrase) == EndsWith(title, <<" ">> \o phrase)

\* the title without the space and the phrase it ends with
WithoutPhrase(title, phrase) ==
    Slice(title, 0, Len(title) - Len(phrase) - 1)

\* C21: a title that ends with a space and a phrase of title_replacements,
\* in lower or in upper case, is cleaned to what the title without them is
\* cleaned to
C21_PhraseLeavesNoResidue ==
    pc = "returned" =>
        \A ph \in Phrases :
            EndsWithPhrase(args[1][1], ph) =>
                result = clean_track_title(
                             Val(WithoutPhrase(args[1][1], ph)))

\* s holds an opening character, later the closing one, neither of them
\* in between, and one of MetadataWords in between in any letter case
HoldsMetadataSpan(s, open, close) ==
    \E p \in 0..(Len(s) - 1) :
        /\ s[p + 1] = open
        /\ FindChar(s, close, p + 1) >= 0
        /\ FindChar(s, open, p + 1) \notin 0..FindChar(s, close, p + 1)
        /\ \E w \in MetadataWords :
               Contains(Lower(Slice(s, p + 1, FindChar(s, close, p + 1))), w)

\* C22: the cleaned title holds no parenthesized and no bracketed span
\* whose content contains "remix", "version", "edit" or "mix"
C22_NoMetadataSpanLeft ==
    pc = "returned" =>
        /\ ~HoldsMetadataSpan(result, "(", ")")
        /\ ~HoldsMetadataSpan(result, "[", "]")

----------------------------------------------------------------------------
(* generate_cleaning_report on its own: one call on three counts; Python's *)
(* integers have no width                                                  *)

MaxCount == 5

InitReport ==
    InitCall({<<c, y, f>> : c \in 0..MaxCount, y \in 0..MaxCount,
                            f \in 0..MaxCount})

CallReport ==
    /\ pc = "call"
    /\ result' = generate_cleaning_report(args[1], args[2], args[3])
    /\ pc' = "returned"
    /\ UNCHANGED <<chart_in, video_in, chart_df, youtube_df, unified_df,
                   duplicates, k, indices_to_remove, threshold, raised, args>>

NextReport == CallReport

SpecReport == InitReport /\ [][NextReport]_vars

\* C23: the report's total_original_records is the sum of the two original
\* counts, its total_removed is that total less final_unified_records, which
\* is the final count, and so the final count and total_removed add up to
\* the total
C23_ReportAddsUp ==
    pc = "returned" =>
        /\ result.total_original_records = args[1] + args[2]
        /\ result.final_unified_records = args[3]
        /\ result.total_removed =
               result.total_original_records - result.final_unified_records
        /\ result.final_unified_records + result.total_removed =
               result.total_original_records

\* the report of three chart rows and two videos of which four records are
\* left: one removed
C23_OneOfFiveRemoved ==
    /\ pc = "returned"
    /\ args = <<3, 2, 4>>
    /\ result.total_original_records = 5
    /\ result.total_removed = 1

----------------------------------------------------------------------------
(* clean_youtube_data on a table of one video: its title made of a few     *)
(* parts, on a channel or on none                                          *)

MaxVideoTitleParts == 3

VideoTitleParts ==
    {<<"a">>, <<" ">>, <<" ", "\"">>, <<"-">>, <<"h", "d">>}

VideoTitles ==
    {Flatten(parts) : parts \in SeqsUpTo(VideoTitleParts, MaxVideoTitleParts)}

VideoChannels ==
    {NULL, Val(<<"b">>),
     Val(<<"b", " ", "-", " ", "T", "o", "p", "i", "c">>)}

InitVideo ==
    InitCall({<<VideoRow(<<"v", "1">>, t, ch, Num(5))>> :
                 t \in VideoTitles, ch \in VideoChannels})

\* clean_youtube_data when youtube_videos holds the one row args[1]
CallVideo ==
    /\ pc = "call"
    /\ result' = YoutubeCleaned(<<args[1]>>)
    /\ pc' = "returned"
    /\ UNCHANGED <<chart_in, video_in, chart_df, youtube_df, unified_df,
                   duplicates, k, indices_to_remove, threshold, raised, args>>

NextVideo == CallVideo

SpecVideo == InitVideo /\ [][NextVideo]_vars

\* the artist and the track of a video by the rule: the extracted ones when
\* the extraction gave an artist, else the cleaned channel and the cleaned
\* title
ArtistAndTrack(clean_title, clean_channel, extracted) ==
    IF NotNa(extracted[1]) THEN <<extracted[1][1], extracted[2][1]>>
    ELSE <<clean_channel, clean_title>>

\* the same for a cleaned title and a cleaned channel
ArtistAndTrackOf(clean_title, clean_channel) ==
    ArtistAndTrack(clean_title, clean_channel,
                   extract_artist_track_from_title(clean_title))

\* the table holds no row when artist or track is empty, else one row with
\* them
HoldsOnly(df, artist_track) ==
    IF artist_track[1] = <<>> \/ artist_track[2] = <<>> THEN df = <<>>
    ELSE /\ Len(df) = 1
         /\ df[1].row.final_artist = Val(artist_track[1])
         /\ df[1].row.final_track = Val(artist_track[2])

\* C25: the cleaned table holds the video with the extracted artist and
\* track when the extraction from its cleaned title gave an artist, with
\* its cleaned channel and cleaned title when it gave none, and does not
\* hold it when the artist or the track so chosen is empty
C25_ExtractedOrFallback ==
    pc = "returned" =>
        HoldsOnly(result,
                  ArtistAndTrackOf(clean_track_title(args[1].title),
                                   clean_artist_name(args[1].channel_title)))

----------------------------------------------------------------------------
(* clean_chart_data on its own, on rows of one artist whose titles are one *)
(* character apart from the next, with position and additional_info set   *)
(* or not                                                                  *)

MaxChainChart == 3

T_abcdefg == <<"a", "b", "c", "d", "e", "f", "g">>

T_abcdefx == <<"a", "b", "c", "d", "e", "f", "x">>

T_abcdeyx == <<"a", "b", "c", "d", "e", "y", "x">>

\* a row of chart_data with additional_info set
WithInfo(row) ==
    [row EXCEPT !.additional_info = Val([valid |-> TRUE, value |-> "{}"])]

ChainCatalogue ==
    UNION {{ChartRow(t, T_artist, Text(<<"?">>)),
            ChartRow(t, T_artist, Num(1)),
            WithInfo(ChartRow(t, T_artist, Num(1)))} :
           t \in {T_abcdefg, T_abcdefx, T_abcdeyx}}

InitChain ==
    /\ pc = "start"
    /\ chart_in \in SeqsUpTo(ChainCatalogue, MaxChainChart)
    /\ video_in = <<>>
    /\ chart_df = <<>>
    /\ youtube_df = <<>>
    /\ unified_df = <<>>
    /\ duplicates = <<>>
    /\ k = 0
    /\ indices_to_remove = {}
    /\ threshold = DefaultThreshold
    /\ raised = ""
    /\ args = <<>>
    /\ result = <<>>

NextChain ==
    \/ CleanChart
    \/ DetectChart
    \/ MergeStep
    \/ MergeDone

SpecChain == InitChain /\ [][NextChain]_vars

\* the records labelled a and b are a pair of the candidate list
CandidatePair(dups, a, b) ==
    \E m \in 1..Len(dups) :
        {dups[m].index1, dups[m].index2} = {a, b}

\* C28: when the same-source loop has gone through all its pairs, every
\* removed record is in a pair of the candidate list with a record that is
\* not removed
C28_RemovedMatchesSurvivor ==
    (pc = "chart_merge" /\ k = Len(duplicates)) =>
        \A l \in indices_to_remove :
            \E s \in Labels(chart_df) \ indices_to_remove :
                CandidatePair(duplicates, l, s)

====
